---- MODULE Spec2Model ----
(***************************************************************************)
(* Process supervision in src-tauri/src/server_manager.rs: the Registry    *)
(* (ServerManager::servers), the Process Table (ServerManager::processes), *)
(* the OS processes spawned for the servers, and the callers of            *)
(* start_server, stop_server, restart_server, delete_server, send_command  *)
(* and create_server.  Every block that runs under one of the two locks    *)
(* without an await is one atomic step; a caller can be preempted between  *)
(* two such blocks, which is where the methods await.                      *)
(***************************************************************************)
EXTENDS Integers, FiniteSets, Sequences, TLC

\* ---- bounds ----
NumCallers == 2
NumIds == 1
MaxSpawn == 2
MaxTime == 1
PollCeiling == 1
CountCap == 2
MaxLen == 3
WordBits == 17
MaxClock == 330
MaxRecs == 2

Callers == 1..NumCallers
ServerIds == 1..NumIds
Procs == 1..MaxSpawn

\* Option::None of last_start_time, of the table entry's stdin, of a local
None == -1

VARIABLES servers, processes, osProc, usedIds, now, call,
          regLock, procLock, disk, snapshot, policy, appLock, arg, ret,
          bridge

vars == <<servers, processes, osProc, usedIds, now, call,
          regLock, procLock, disk, snapshot, policy, appLock, arg, ret,
          bridge>>

\* the scheduling fields of the records, the holder of the mutex that
\* lib.rs puts around the ServerManager, and the argument and the result of
\* a function that is applied on its own; with them the PrismarineBridge of
\* AppState, which no operation of the ServerManager touches
sched == <<policy, appLock, arg, ret, bridge>>

\* the holders of the two mutexes between steps, the file of save_servers
\* and the Registry as it was when that file was written
aux == <<regLock, procLock, disk, snapshot, sched>>

\* the servers mutex (tokio) and the processes mutex (std) are free: a block
\* that locks and unlocks without awaiting in between leaves them free
RegFree == regLock = None

ProcFree == procLock = None

\* ---- data model ----
ServerStatus == {"Stopped", "Starting", "Running", "Stopping"}

NoServer == [status |-> "Absent", last_start_time |-> None]

\* a table entry: the process, its stdin stream (None while a writer has
\* taken it) and how many courtesy "stop" lines stop_server wrote to the
\* process while the entry was in the table (counted up to CountCap)
NoChild == [proc |-> None, stdin |-> None, stops |-> 0]

ServerInfo(st, lst) == [status |-> st, last_start_time |-> lst]

Child(p) == [proc |-> p, stdin |-> p, stops |-> 0]

\* config_path does not exist
NoFile == <<[missing |-> TRUE]>>

\* config_path holds text that is not a JSON array of servers (a write that
\* failed after the file was truncated)
Corrupt == <<[corrupt |-> TRUE]>>

\* serde_json values: null, a number, a string
JsonNull == [t |-> "null", v |-> 0]

JsonNum(n) == [t |-> "num", v |-> n]

JsonStr(x) == [t |-> "str", v |-> x]

\* Serialize for ServerInfo: the id and the unit variant of ServerStatus
\* as strings, Option<u64> as null or a number
EncodeServer(id, s) ==
  [id |-> JsonStr(id),
   status |-> JsonStr(s.status),
   last_start_time |-> IF s.last_start_time = None
                       THEN JsonNull
                       ELSE JsonNum(s.last_start_time)]

\* Deserialize for Option<u64>
DecodeOption(j) == IF j.t = "null" THEN None ELSE j.v

\* Deserialize for ServerInfo: every field is taken from the object as it
\* was written, the status included
DecodeServer_ForceStopped(o) ==
  ServerInfo("Stopped", DecodeOption(o.last_start_time))

DecodeServer(o) == ServerInfo(o.status.v, DecodeOption(o.last_start_time))

\* the orders in which HashMap::values can yield the records of ids
Orders(ids) ==
  {s \in [1..Cardinality(ids) -> ids] :
     \A i, j \in 1..Cardinality(ids) : s[i] = s[j] => i = j}

\* the loop of load_servers: one insert per entry, in file order
RECURSIVE LoadInto(_, _)
LoadInto(reg, list) ==
  IF list = <<>>
  THEN reg
  ELSE LoadInto([reg EXCEPT ![Head(list).id] = Head(list).info], Tail(list))

NoServers == [id \in ServerIds |-> NoServer]

HasRecord(id) == servers[id] # NoServer

HasChild(id) == processes[id] # NoChild

\* an OS process: its state, the server it was spawned for, and how many
\* start_kill calls it was given (counted up to CountCap)
NoProc == [state |-> "none", sid |-> None, kills |-> 0]

Spawned(id) == [state |-> "alive", sid |-> id, kills |-> 0]

Bump(n) == IF n < CountCap THEN n + 1 ELSE n

\* ---- memory strings and launch arguments ----
\* u64, scaled down to WordBits bits
MaxWord == 2^WordBits - 1

\* an arithmetic overflow aborts the call in a build with overflow checks
Panic == -2

\* the characters memory strings are built from, and the strings
Alphabet == {"0", "1", "8", "G", "g", "M", "m", " ", "a", "+"}

Examples ==
  { <<"4", "G">>, <<"2", "0", "4", "8", "M">>, <<"5", "1", "2">>,
    <<"a", "b", "c">>, <<"1", "6", "G">>, <<"1", "2", "G">>,
    <<"1", "1", "G">>, <<"1", "2", "2", "8", "8", "M">>,
    <<"1", "2", "2", "8", "7">>, <<" ", "4", "g", " ">>,
    <<"9", "9", "9", "G">>, <<"9", "9", "9", "9", "9", "9">>,
    <<"4", ".", "5", "G">>, <<"-", "4", "G">>, <<"4", "G", "B">>,
    <<"+", "1", "2", "G">> }

MemoryStrings ==
  UNION {[1..n -> Alphabet] : n \in 0..MaxLen} \cup Examples

IsSpace(ch) == ch = " "

\* str::trim
RECURSIVE TrimStart(_)
TrimStart(s) ==
  IF s # <<>> /\ IsSpace(Head(s)) THEN TrimStart(Tail(s)) ELSE s

RECURSIVE TrimEnd(_)
TrimEnd(s) ==
  IF s # <<>> /\ IsSpace(s[Len(s)])
  THEN TrimEnd(SubSeq(s, 1, Len(s) - 1))
  ELSE s

Trim(s) == TrimEnd(TrimStart(s))

\* str::to_uppercase
UpperChar(ch) ==
  CASE ch = "g" -> "G"
    [] ch = "m" -> "M"
    [] ch = "a" -> "A"
    [] ch = "b" -> "B"
    [] ch = "c" -> "C"
    [] OTHER -> ch

ToUppercase(s) == [i \in DOMAIN s |-> UpperChar(s[i])]

Digits == {"0", "1", "2", "3", "4", "5", "6", "7", "8", "9"}

DigitValue(ch) ==
  CASE ch = "0" -> 0 [] ch = "1" -> 1 [] ch = "2" -> 2 [] ch = "3" -> 3
    [] ch = "4" -> 4 [] ch = "5" -> 5 [] ch = "6" -> 6 [] ch = "7" -> 7
    [] ch = "8" -> 8 [] ch = "9" -> 9

\* the digit loop of u64::from_str: an invalid digit or a value that does
\* not fit gives an error (None)
RECURSIVE ParseDigits(_, _)
ParseDigits(s, acc) ==
  IF s = <<>> THEN acc
  ELSE IF Head(s) \notin Digits THEN None
  ELSE IF acc * 10 + DigitValue(Head(s)) > MaxWord THEN None
  ELSE ParseDigits(Tail(s), acc * 10 + DigitValue(Head(s)))

\* str::parse::<u64>: empty, a lone sign and a minus sign are errors, one
\* leading plus sign is accepted
ParseU64(s) ==
  IF s = <<>> \/ s = <<"+">> \/ s = <<"-">> THEN None
  ELSE IF Head(s) = "+" THEN ParseDigits(Tail(s), 0)
  ELSE ParseDigits(s, 0)

EndsWith(s, ch) == s # <<>> /\ s[Len(s)] = ch

ButLast(s) == SubSeq(s, 1, Len(s) - 1)

GigaFactor == 1024

\* g * 1024: the product, or when it does not fit in the word, a panic
\* (overflow checks on) or the wrapped product (overflow checks off)
TimesGiga(g) ==
  IF g * GigaFactor > MaxWord
  THEN {Panic, (g * GigaFactor) % (MaxWord + 1)}
  ELSE {g * GigaFactor}

\* parse_memory_mb without to_uppercase
ParseMemoryMb_CaseSensitive(memory) ==
  LET m == Trim(memory) IN
  IF EndsWith(m, "G")
  THEN IF ParseU64(ButLast(m)) = None
       THEN {None}
       ELSE TimesGiga(ParseU64(ButLast(m)))
  ELSE IF EndsWith(m, "M")
  THEN {ParseU64(ButLast(m))}
  ELSE {ParseU64(m)}

\* parse_memory_mb: the set of results the builds can give
ParseMemoryMb(memory) ==
  LET m == ToUppercase(Trim(memory)) IN
  IF EndsWith(m, "G")
  THEN IF ParseU64(ButLast(m)) = None
       THEN {None}
       ELSE TimesGiga(ParseU64(ButLast(m)))
  ELSE IF EndsWith(m, "M")
  THEN {ParseU64(ButLast(m))}
  ELSE {ParseU64(m)}

\* Vec::insert at a 0-based index
Insert(v, i, x) == SubSeq(v, 1, i) \o <<x>> \o SubSeq(v, i + 1, Len(v))

BaseArgs ==
  << "-Xmx", "-Xms", "-XX:+UseG1GC", "-XX:+ParallelRefProcEnabled",
     "-XX:MaxGCPauseMillis=200", "-XX:+UnlockExperimentalVMOptions",
     "-XX:+DisableExplicitGC", "-XX:+AlwaysPreTouch",
     "-XX:G1HeapWastePercent=5", "-XX:G1MixedGCCountTarget=4",
     "-XX:G1MixedGCLiveThresholdPercent=90",
     "-XX:G1RSetUpdatingPauseTimePercent=5", "-XX:SurvivorRatio=32",
     "-XX:+PerfDisableSharedMem", "-XX:MaxTenuringThreshold=1",
     "-jar", "server.jar", "nogui" >>

LargeTier ==
  << "-XX:G1NewSizePercent=40", "-XX:G1MaxNewSizePercent=50",
     "-XX:G1ReservePercent=15", "-XX:InitiatingHeapOccupancyPercent=15" >>

DefaultTier ==
  << "-XX:G1NewSizePercent=30", "-XX:G1MaxNewSizePercent=40",
     "-XX:G1ReservePercent=20", "-XX:InitiatingHeapOccupancyPercent=20" >>

TierThreshold == 12288

TierBase == 7

\* the four flags pushed behind the last collector flag instead
InsertTier_AfterBaseline(v, tier) ==
  Insert(Insert(Insert(Insert(v, 15, tier[1]), 16, tier[2]), 17, tier[3]),
         18, tier[4])

InsertTier(v, tier) ==
  Insert(Insert(Insert(Insert(v, TierBase, tier[1]), TierBase + 1, tier[2]),
                TierBase + 2, tier[3]),
         TierBase + 3, tier[4])

\* the jvm_args of start_server for a parsed max_memory
JvmArgs_OneTier(mem_mb) ==
  IF mem_mb = None THEN BaseArgs ELSE InsertTier(BaseArgs, DefaultTier)

JvmArgs(mem_mb) ==
  IF mem_mb = None
  THEN BaseArgs
  ELSE IF mem_mb >= TierThreshold
  THEN InsertTier(BaseArgs, LargeTier)
  ELSE InsertTier(BaseArgs, DefaultTier)

\* the result of planning a launch: nothing yet, a panic, or the parsed
\* memory and the argument list handed to the process
NoRet == [planned |-> FALSE, parsed |-> None, jvm_args |-> <<>>]

\* PrismarineBridge::new: no Child in `process`, BridgeStatus::Stopped. With
\* the two fields of the struct: the bore processes that are alive, those
\* whose output a monitor thread has not read to its end, for each caller
\* the method it is in (op), its position (pc), the Child it holds in a
\* local and its result, whether no start() has overlapped the stop() it
\* is in (clear), and whether a stop() that no start() overlapped has
\* returned with no start() called since (stopped)
NoBridge ==
  [process |-> None, status |-> "Stopped", alive |-> {}, reading |-> {},
   op |-> [c \in Callers |-> "none"], pc |-> [c \in Callers |-> "idle"],
   child |-> [c \in Callers |-> None], result |-> [c \in Callers |-> "none"],
   clear |-> [c \in Callers |-> FALSE], stopped |-> FALSE]

\* ---- the selection of check_and_restart_servers ----
MinInterval == 60

GuardWindow == 300

Max(a, b) == IF a >= b THEN a ELSE b

\* a + b on u64: the sum, or when it does not fit in the word, a panic
\* (overflow checks on) or the wrapped sum (overflow checks off)
PlusWord(a, b) ==
  IF a + b > MaxWord
  THEN {Panic, (a + b) % (MaxWord + 1)}
  ELSE {a + b}

\* str::parse::<chrono_tz::Tz>: the offset of a known zone in seconds
KnownZones == {"UTC", "Asia/Tokyo"}

ZoneOffset(tz) == IF tz = "Asia/Tokyo" THEN 32400 ELSE 0

\* Utc::now().with_timezone(&tz), then hour() and minute()
HourAt(t, tz) == ((t + ZoneOffset(tz)) \div 3600) % 24

MinuteAt(t, tz) == ((t + ZoneOffset(tz)) \div 60) % 60

\* a restart_schedule text: hours and minutes, and seconds if the text
\* has a third part ("HH:MM:SS")
Schedule(h, m, sec) == [hh |-> h, mm |-> m, ss |-> sec]

\* Option::None of restart_schedule and of time_zone
NoSchedule == Schedule(None, None, None)

NoZone == "None"

\* NaiveTime::parse_from_str(schedule, "%H:%M"): a third part is trailing
\* input, an hour above 23 or a minute above 59 is out of range
ParsesAsHM(sc) == sc.ss = None /\ sc.hh <= 23 /\ sc.mm <= 59

\* the time-of-day test of the Schedule branch
ClockMatches_HourOnly(p, t) ==
  /\ p.restart_schedule # NoSchedule
  /\ p.time_zone # NoZone
  /\ p.time_zone \in KnownZones
  /\ ParsesAsHM(p.restart_schedule)
  /\ HourAt(t, p.time_zone) = p.restart_schedule.hh

ClockMatches(p, t) ==
  /\ p.restart_schedule # NoSchedule
  /\ p.time_zone # NoZone
  /\ p.time_zone \in KnownZones
  /\ ParsesAsHM(p.restart_schedule)
  /\ HourAt(t, p.time_zone) = p.restart_schedule.hh
  /\ MinuteAt(t, p.time_zone) = p.restart_schedule.mm

\* the double-restart guard of the Schedule branch: the outcomes of
\* "not (now_params < last_start + 300)"
GuardPassed_NoGuard(lst, t) == {"pushed"}

GuardPassed(lst, t) ==
  IF lst = None
  THEN {"pushed"}
  ELSE {IF w = Panic THEN "panic" ELSE IF t < w THEN "skipped" ELSE "pushed" :
          w \in PlusWord(lst, GuardWindow)}

\* the body of the loop for one record s with scheduling fields p at time
\* the loop body without the status test
SelectOutcomes_AnyStatus(s, p, t) ==
  IF ~p.auto_restart
  THEN {"skipped"}
  ELSE IF p.restart_type = "Interval"
  THEN IF s.last_start_time = None
       THEN {"skipped"}
       ELSE {IF w = Panic THEN "panic" ELSE IF t >= w THEN "pushed" ELSE "skipped" :
               w \in PlusWord(s.last_start_time,
                              Max(p.restart_interval, MinInterval))}
  ELSE IF ClockMatches(p, t)
       THEN GuardPassed(s.last_start_time, t)
       ELSE {"skipped"}

\* t: the id is pushed, or skipped, or an addition overflows in a build
\* with overflow checks and the pass panics
SelectOutcomes(s, p, t) ==
  IF ~p.auto_restart \/ s.status # "Running"
  THEN {"skipped"}
  ELSE IF p.restart_type = "Interval"
  THEN IF s.last_start_time = None
       THEN {"skipped"}
       ELSE {IF w = Panic THEN "panic" ELSE IF t >= w THEN "pushed" ELSE "skipped" :
               w \in PlusWord(s.last_start_time,
                              Max(p.restart_interval, MinInterval))}
  ELSE IF ClockMatches(p, t)
       THEN GuardPassed(s.last_start_time, t)
       ELSE {"skipped"}

\* the records, scheduling fields and times one pass is applied to
SweepTimes == {0, 59, 60, 100, 300, 359, 360, 3700, 3800}

SweepIntervals == {0, 59, 3600, MaxWord}

SweepSchedules ==
  {NoSchedule, Schedule(0, 5, None), Schedule(9, 5, None), Schedule(0, 5, 0),
   Schedule(24, 5, None)}

SweepZones == {NoZone, "UTC", "Asia/Tokyo", "Mars/Olympus"}

SweepInputs ==
  [status : ServerStatus, last_start_time : {None} \cup SweepTimes,
   t : SweepTimes, auto_restart : BOOLEAN,
   restart_type : {"Interval", "Schedule"},
   restart_interval : SweepIntervals, restart_schedule : SweepSchedules,
   time_zone : SweepZones]

\* the scheduling fields set_auto_restart writes, as create_server sets
\* them; swept is the time at which a sweep last selected the record
DefaultInterval == 86400

NoPolicy ==
  [auto_restart |-> FALSE, restart_type |-> "Interval",
   restart_interval |-> DefaultInterval, restart_schedule |-> NoSchedule,
   time_zone |-> NoZone, swept |-> None]

IdleCall ==
  [op |-> "none", id |-> None, pc |-> "idle", result |-> "none",
   child |-> None, stdin_handle |-> None, polls |-> 0, status |-> "none",
   wrote |-> FALSE, killed |-> FALSE, did_stop |-> FALSE,
   content |-> <<>>, prior |-> <<>>, sweeping |-> FALSE]

NextProc == Cardinality({p \in Procs : osProc[p].state # "none"}) + 1

Goto(c, label) == call' = [call EXCEPT ![c].pc = label]

Finish(c, res) ==
  call' = [call EXCEPT ![c].pc = "done", ![c].result = res]

Init ==
  /\ servers = [id \in ServerIds |-> NoServer]
  /\ processes = [id \in ServerIds |-> NoChild]
  /\ osProc = [p \in Procs |-> NoProc]
  /\ usedIds = {}
  /\ now = 0
  /\ call = [c \in Callers |-> IdleCall]
  /\ regLock = None
  /\ procLock = None
  /\ disk = NoFile
  /\ snapshot = NoServers
  /\ policy = [id \in ServerIds |-> NoPolicy]
  /\ appLock = None
  /\ arg = <<>>
  /\ ret = NoRet
  /\ bridge = NoBridge

\* ---- entry of a call ----
Begin(c, o, id, label) ==
  /\ call[c].pc = "idle"
  /\ UNCHANGED aux
  /\ call' = [call EXCEPT ![c] = [IdleCall EXCEPT !.op = o, !.id = id, !.pc = label]]
  /\ UNCHANGED <<servers, processes, osProc, usedIds, now>>

BeginStart(c) == \E id \in ServerIds : Begin(c, "start", id, "start_check")

BeginStop(c) == \E id \in ServerIds : Begin(c, "stop", id, "stop_check")

BeginRestart(c) == \E id \in ServerIds : Begin(c, "restart", id, "restart_check")

BeginDelete(c) == \E id \in ServerIds : Begin(c, "delete", id, "stop_check")

BeginSend(c) == \E id \in ServerIds : Begin(c, "send", id, "send_take")

\* the identifier is a fresh uuid, never one that was handed out before
BeginCreate(c) ==
  /\ call[c].pc = "idle"
  /\ UNCHANGED aux
  /\ \E id \in ServerIds \ usedIds :
       /\ call' = [call EXCEPT ![c] = [IdleCall EXCEPT !.op = "create", !.id = id,
                                                       !.pc = "create_finish"]]
       /\ usedIds' = usedIds \cup {id}
  /\ UNCHANGED <<servers, processes, osProc, now>>

Return(c) ==
  /\ call[c].pc = "done"
  /\ UNCHANGED aux
  /\ call' = [call EXCEPT ![c] = IdleCall]
  /\ UNCHANGED <<servers, processes, osProc, usedIds, now>>

\* ---- create_server ----
CreateFinish(c) ==
  /\ call[c].pc = "create_finish"
  /\ RegFree
  /\ UNCHANGED aux
  /\ \E ok \in BOOLEAN :
       IF ok
       THEN /\ servers' = [servers EXCEPT ![call[c].id] = ServerInfo("Stopped", None)]
            /\ Finish(c, "Ok")
       ELSE /\ UNCHANGED servers
            /\ Finish(c, "CreateFailed")
  /\ UNCHANGED <<processes, osProc, usedIds, now>>

\* ---- start_server ----
\* StartCheck with the stamp written before the status is examined
StartCheck_StampFirst(c) ==
  LET id == call[c].id IN
  /\ call[c].pc = "start_check"
  /\ RegFree
  /\ UNCHANGED aux
  /\ IF ~HasRecord(id)
     THEN /\ Finish(c, "NotFound")
          /\ UNCHANGED servers
     ELSE IF servers[id].status = "Running"
     THEN /\ Finish(c, "AlreadyRunning")
          /\ servers' = [servers EXCEPT ![id].last_start_time = now]
     ELSE /\ servers' = [servers EXCEPT ![id] = ServerInfo("Starting", now)]
          /\ Goto(c, "start_spawn")
  /\ UNCHANGED <<processes, osProc, usedIds, now>>

StartCheck(c) ==
  LET id == call[c].id IN
  /\ call[c].pc = "start_check"
  /\ RegFree
  /\ UNCHANGED aux
  /\ IF ~HasRecord(id)
     THEN /\ Finish(c, "NotFound")
          /\ UNCHANGED servers
     ELSE IF servers[id].status = "Running"
     THEN /\ Finish(c, "AlreadyRunning")
          /\ UNCHANGED servers
     ELSE /\ servers' = [servers EXCEPT ![id] = ServerInfo("Starting", now)]
          /\ Goto(c, "start_spawn")
  /\ UNCHANGED <<processes, osProc, usedIds, now>>

StartSpawn(c) ==
  /\ call[c].pc = "start_spawn"
  /\ UNCHANGED aux
  /\ \E ok \in BOOLEAN :
       IF ok /\ NextProc \in Procs
       THEN /\ osProc' = [osProc EXCEPT ![NextProc] = Spawned(call[c].id)]
            /\ call' = [call EXCEPT ![c].pc = "start_insert", ![c].child = NextProc]
       ELSE /\ ~ok
            /\ UNCHANGED osProc
            /\ Finish(c, "SpawnFailed")
  /\ UNCHANGED <<servers, processes, usedIds, now>>

\* StartInsert that drops the spawned handle instead of registering it
StartInsert_NotRegistered(c) ==
  /\ call[c].pc = "start_insert"
  /\ ProcFree
  /\ UNCHANGED aux
  /\ call' = [call EXCEPT ![c].pc = "start_running", ![c].child = None]
  /\ UNCHANGED <<servers, processes, osProc, usedIds, now>>

StartInsert(c) ==
  /\ call[c].pc = "start_insert"
  /\ ProcFree
  /\ UNCHANGED aux
  /\ processes' = [processes EXCEPT ![call[c].id] = Child(call[c].child)]
  /\ call' = [call EXCEPT ![c].pc = "start_running", ![c].child = None]
  /\ UNCHANGED <<servers, osProc, usedIds, now>>

StartSetRunning(c) ==
  LET id == call[c].id IN
  /\ call[c].pc = "start_running"
  /\ RegFree
  /\ UNCHANGED aux
  /\ servers' = IF HasRecord(id)
                THEN [servers EXCEPT ![id].status = "Running"]
                ELSE servers
  /\ Finish(c, "Ok")
  /\ UNCHANGED <<processes, osProc, usedIds, now>>

\* ---- send_command ----
\* what the caller of send_command does with its result
\* SendReturn that enters the grace period whatever the send returned
SendReturn_AlwaysPoll(c, res) ==
  IF call[c].op = "send"
  THEN [call[c] EXCEPT !.pc = "done", !.result = res, !.stdin_handle = None]
  ELSE [call[c] EXCEPT !.pc = "stop_poll", !.stdin_handle = None]

SendReturn(c, res) ==
  IF call[c].op = "send"
  THEN [call[c] EXCEPT !.pc = "done", !.result = res, !.stdin_handle = None]
  ELSE [call[c] EXCEPT !.pc = IF res = "Ok" THEN "stop_poll" ELSE "stop_kill",
                       !.stdin_handle = None]

\* SendTake that uses the stream and leaves it in the entry
SendTake_NotTaken(c) ==
  LET id == call[c].id IN
  /\ call[c].pc = "send_take"
  /\ ProcFree
  /\ UNCHANGED aux
  /\ IF ~HasChild(id)
     THEN call' = [call EXCEPT ![c] = SendReturn(c, "NotRunning")]
     ELSE IF processes[id].stdin = None
     THEN call' = [call EXCEPT ![c] = SendReturn(c, "StdinUnavailable")]
     ELSE call' = [call EXCEPT ![c].pc = "send_write",
                               ![c].stdin_handle = processes[id].stdin]
  /\ UNCHANGED <<servers, processes, osProc, usedIds, now>>

\* SendTake that reports success when the table has no entry
SendTake_MissingIsOk(c) ==
  LET id == call[c].id IN
  /\ call[c].pc = "send_take"
  /\ ProcFree
  /\ UNCHANGED aux
  /\ IF ~HasChild(id)
     THEN /\ call' = [call EXCEPT ![c] = SendReturn(c, "Ok")]
          /\ UNCHANGED processes
     ELSE IF processes[id].stdin = None
     THEN /\ call' = [call EXCEPT ![c] = SendReturn(c, "StdinUnavailable")]
          /\ UNCHANGED processes
     ELSE /\ processes' = [processes EXCEPT ![id].stdin = None]
          /\ call' = [call EXCEPT ![c].pc = "send_write",
                                  ![c].stdin_handle = processes[id].stdin]
  /\ UNCHANGED <<servers, osProc, usedIds, now>>

SendTake(c) ==
  LET id == call[c].id IN
  /\ call[c].pc = "send_take"
  /\ ProcFree
  /\ UNCHANGED aux
  /\ IF ~HasChild(id)
     THEN /\ call' = [call EXCEPT ![c] = SendReturn(c, "NotRunning")]
          /\ UNCHANGED processes
     ELSE IF processes[id].stdin = None
     THEN /\ call' = [call EXCEPT ![c] = SendReturn(c, "StdinUnavailable")]
          /\ UNCHANGED processes
     ELSE /\ processes' = [processes EXCEPT ![id].stdin = None]
          /\ call' = [call EXCEPT ![c].pc = "send_write",
                                  ![c].stdin_handle = processes[id].stdin]
  /\ UNCHANGED <<servers, osProc, usedIds, now>>

\* write_all and flush into the pipe of the process the stream belongs to
WriteOutcomes(p) ==
  IF osProc[p].state = "alive" THEN {TRUE}
  ELSE IF osProc[p].state = "killed" THEN {TRUE, FALSE}
  ELSE {FALSE}

SendWrite(c) ==
  LET p == call[c].stdin_handle IN
  /\ call[c].pc = "send_write"
  /\ UNCHANGED aux
  /\ \E ok \in WriteOutcomes(p) :
       IF ok
       THEN /\ call' = [call EXCEPT ![c].pc = "send_put", ![c].wrote = TRUE]
            /\ processes' = IF call[c].op # "send" /\ processes[call[c].id].proc = p
                            THEN [processes EXCEPT ![call[c].id].stops = Bump(@)]
                            ELSE processes
       ELSE /\ call' = [call EXCEPT ![c] = SendReturn(c, "WriteFailed")]
            /\ UNCHANGED processes
  /\ UNCHANGED <<servers, osProc, usedIds, now>>

SendPutBack(c) ==
  LET id == call[c].id IN
  /\ call[c].pc = "send_put"
  /\ ProcFree
  /\ UNCHANGED aux
  /\ processes' = IF HasChild(id)
                  THEN [processes EXCEPT ![id].stdin = call[c].stdin_handle]
                  ELSE processes
  /\ call' = [call EXCEPT ![c] = SendReturn(c, "Ok")]
  /\ UNCHANGED <<servers, osProc, usedIds, now>>

\* ---- stop_server ----
\* where a finished stop_server continues in its caller
StopReturn(c) ==
  IF call[c].op = "restart"
  THEN [call[c] EXCEPT !.pc = "start_check", !.did_stop = TRUE]
  ELSE IF call[c].op = "delete"
  THEN [call[c] EXCEPT !.pc = "delete_remove", !.did_stop = TRUE]
  ELSE [call[c] EXCEPT !.pc = "done", !.result = "Ok", !.did_stop = TRUE]

\* StopCheck that returns early for Stopped only
StopCheck_StoppedOnly(c) ==
  LET id == call[c].id IN
  /\ call[c].pc = "stop_check"
  /\ RegFree
  /\ UNCHANGED aux
  /\ IF HasRecord(id) /\ servers[id].status = "Stopped"
     THEN /\ call' = [call EXCEPT ![c] = StopReturn(c)]
          /\ UNCHANGED servers
     ELSE /\ servers' = IF HasRecord(id)
                        THEN [servers EXCEPT ![id].status = "Stopping"]
                        ELSE servers
          /\ Goto(c, "send_take")
  /\ UNCHANGED <<processes, osProc, usedIds, now>>

\* StopCheck that returns early for Stopping only
StopCheck_StoppingOnly(c) ==
  LET id == call[c].id IN
  /\ call[c].pc = "stop_check"
  /\ RegFree
  /\ UNCHANGED aux
  /\ IF HasRecord(id) /\ servers[id].status = "Stopping"
     THEN /\ call' = [call EXCEPT ![c] = StopReturn(c)]
          /\ UNCHANGED servers
     ELSE /\ servers' = IF HasRecord(id)
                        THEN [servers EXCEPT ![id].status = "Stopping"]
                        ELSE servers
          /\ Goto(c, "send_take")
  /\ UNCHANGED <<processes, osProc, usedIds, now>>

StopCheck(c) ==
  LET id == call[c].id IN
  /\ call[c].pc = "stop_check"
  /\ RegFree
  /\ UNCHANGED aux
  /\ IF HasRecord(id) /\ servers[id].status \in {"Stopped", "Stopping"}
     THEN /\ call' = [call EXCEPT ![c] = StopReturn(c)]
          /\ UNCHANGED servers
     ELSE /\ servers' = IF HasRecord(id)
                        THEN [servers EXCEPT ![id].status = "Stopping"]
                        ELSE servers
          /\ Goto(c, "send_take")
  /\ UNCHANGED <<processes, osProc, usedIds, now>>

\* StopPoll whose loop has no ceiling: a pass that sees the process alive
\* sleeps and tries again, whatever the time
StopPoll_NoCeiling(c) ==
  LET id == call[c].id
      process_exited == IF HasChild(id)
                        THEN osProc[processes[id].proc].state = "exited"
                        ELSE TRUE
  IN
  /\ call[c].pc = "stop_poll"
  /\ ProcFree
  /\ UNCHANGED aux
  /\ IF process_exited
     THEN Goto(c, "stop_poll_remove")
     ELSE UNCHANGED call
  /\ UNCHANGED <<servers, processes, osProc, usedIds, now>>

\* one pass of the grace-period loop up to the sleep
StopPoll(c) ==
  LET id == call[c].id
      process_exited == IF HasChild(id)
                        THEN osProc[processes[id].proc].state = "exited"
                        ELSE TRUE
  IN
  /\ call[c].pc = "stop_poll"
  /\ call[c].polls >= PollCeiling \/ ProcFree
  /\ UNCHANGED aux
  /\ IF call[c].polls >= PollCeiling
     THEN Goto(c, "stop_kill")
     ELSE IF process_exited
     THEN Goto(c, "stop_poll_remove")
     ELSE call' = [call EXCEPT ![c].polls = @ + 1]
  /\ UNCHANGED <<servers, processes, osProc, usedIds, now>>

\* StopPollRemove that leaves the entry of the exited process in the table
StopPollRemove_Keep(c) ==
  /\ call[c].pc = "stop_poll_remove"
  /\ ProcFree
  /\ UNCHANGED aux
  /\ Goto(c, "stop_kill")
  /\ UNCHANGED <<servers, processes, osProc, usedIds, now>>

StopPollRemove(c) ==
  /\ call[c].pc = "stop_poll_remove"
  /\ ProcFree
  /\ UNCHANGED aux
  /\ processes' = [processes EXCEPT ![call[c].id] = NoChild]
  /\ Goto(c, "stop_kill")
  /\ UNCHANGED <<servers, osProc, usedIds, now>>

\* Child::start_kill: the signal is sent, the exit is not awaited
StartKill(p) ==
  [osProc EXCEPT ![p].state = IF @ = "alive" THEN "killed" ELSE @,
                 ![p].kills = Bump(@)]

\* StopKill whose guard on the process table lives on to the status update
StopKill_KeepsLock(c) ==
  LET id == call[c].id IN
  /\ call[c].pc = "stop_kill"
  /\ ProcFree
  /\ procLock' = c
  /\ UNCHANGED <<regLock, disk, snapshot, sched>>
  /\ IF HasChild(id)
     THEN /\ processes' = [processes EXCEPT ![id] = NoChild]
          /\ osProc' = StartKill(processes[id].proc)
          /\ call' = [call EXCEPT ![c].pc = "stop_set", ![c].killed = TRUE]
     ELSE /\ UNCHANGED <<processes, osProc>>
          /\ Goto(c, "stop_set")
  /\ UNCHANGED <<servers, usedIds, now>>

StopKill(c) ==
  LET id == call[c].id IN
  /\ call[c].pc = "stop_kill"
  /\ ProcFree
  /\ UNCHANGED aux
  /\ IF HasChild(id)
     THEN /\ processes' = [processes EXCEPT ![id] = NoChild]
          /\ osProc' = StartKill(processes[id].proc)
          /\ call' = [call EXCEPT ![c].pc = "stop_set", ![c].killed = TRUE]
     ELSE /\ UNCHANGED <<processes, osProc>>
          /\ Goto(c, "stop_set")
  /\ UNCHANGED <<servers, usedIds, now>>

\* StopSetStopped that writes the record whether or not the id has one
StopSetStopped_Upsert(c) ==
  LET id == call[c].id IN
  /\ call[c].pc = "stop_set"
  /\ RegFree
  /\ UNCHANGED aux
  /\ servers' = [servers EXCEPT ![id] = ServerInfo("Stopped", None)]
  /\ call' = [call EXCEPT ![c] = [StopReturn(c) EXCEPT !.polls = 0]]
  /\ UNCHANGED <<processes, osProc, usedIds, now>>

StopSetStopped(c) ==
  LET id == call[c].id IN
  /\ call[c].pc = "stop_set"
  /\ RegFree
  /\ UNCHANGED aux
  /\ servers' = IF HasRecord(id)
                THEN [servers EXCEPT ![id] = ServerInfo("Stopped", None)]
                ELSE servers
  /\ call' = [call EXCEPT ![c] = [StopReturn(c) EXCEPT !.polls = 0]]
  /\ UNCHANGED <<processes, osProc, usedIds, now>>

\* ---- restart_server ----
\* RestartCheck that stops first for Running only
RestartCheck_RunningOnly(c) ==
  LET id == call[c].id IN
  /\ call[c].pc = "restart_check"
  /\ RegFree
  /\ UNCHANGED aux
  /\ IF ~HasRecord(id)
     THEN Finish(c, "NotFound")
     ELSE call' = [call EXCEPT ![c].status = servers[id].status,
                               ![c].pc = IF servers[id].status = "Running"
                                         THEN "stop_check" ELSE "start_check"]
  /\ UNCHANGED <<servers, processes, osProc, usedIds, now>>

RestartCheck(c) ==
  LET id == call[c].id IN
  /\ call[c].pc = "restart_check"
  /\ RegFree
  /\ UNCHANGED aux
  /\ IF ~HasRecord(id)
     THEN Finish(c, "NotFound")
     ELSE call' = [call EXCEPT ![c].status = servers[id].status,
                               ![c].pc = IF servers[id].status \in {"Running", "Starting"}
                                         THEN "stop_check" ELSE "start_check"]
  /\ UNCHANGED <<servers, processes, osProc, usedIds, now>>

\* ---- delete_server ----
DeleteRemove_KeepRecord(c) ==
  LET id == call[c].id IN
  /\ call[c].pc = "delete_remove"
  /\ RegFree
  /\ UNCHANGED aux
  /\ UNCHANGED servers
  /\ IF HasRecord(id)
     THEN Goto(c, "delete_dir")
     ELSE Finish(c, "NotFound")
  /\ UNCHANGED <<processes, osProc, usedIds, now>>

DeleteRemove(c) ==
  LET id == call[c].id IN
  /\ call[c].pc = "delete_remove"
  /\ RegFree
  /\ UNCHANGED aux
  /\ IF HasRecord(id)
     THEN /\ servers' = [servers EXCEPT ![id] = NoServer]
          /\ Goto(c, "delete_dir")
     ELSE /\ UNCHANGED servers
          /\ Finish(c, "NotFound")
  /\ UNCHANGED <<processes, osProc, usedIds, now>>

DeleteDir(c) ==
  /\ call[c].pc = "delete_dir"
  /\ UNCHANGED aux
  /\ \E ok \in BOOLEAN : Finish(c, IF ok THEN "Ok" ELSE "DirDeleteFailed")
  /\ UNCHANGED <<servers, processes, osProc, usedIds, now>>

\* ---- save_servers ----
BeginSave(c) == Begin(c, "save", None, "save_collect")

\* the servers lock is taken and stays held until the method returns; the
\* records are collected in the map's iteration order and serialised
SaveCollect(c) ==
  /\ call[c].pc = "save_collect"
  /\ RegFree
  /\ regLock' = c
  /\ \E order \in Orders({id \in ServerIds : HasRecord(id)}) :
       call' = [call EXCEPT
                  ![c].pc = "save_write",
                  ![c].content =
                     [i \in DOMAIN order |-> EncodeServer(order[i], servers[order[i]])]]
  /\ UNCHANGED <<servers, processes, osProc, usedIds, now, procLock, disk, snapshot>>
  /\ UNCHANGED sched

\* create_dir_all and fs::write: either the file now holds the content, or
\* the call fails and the file is as before or truncated
SaveWrite(c) ==
  /\ call[c].pc = "save_write"
  /\ regLock = c
  /\ regLock' = None
  /\ \/ /\ disk' = call[c].content
        /\ snapshot' = servers
        /\ Finish(c, "Ok")
     \/ /\ disk' \in {disk, Corrupt}
        /\ UNCHANGED snapshot
        /\ Finish(c, "WriteFailed")
  /\ UNCHANGED <<servers, processes, osProc, usedIds, now, procLock>>
  /\ UNCHANGED sched

\* ---- load_servers ----
BeginLoad(c) == Begin(c, "load", None, "load_read")

\* exists, read_to_string and serde_json::from_str
LoadRead(c) ==
  /\ call[c].pc = "load_read"
  /\ UNCHANGED aux
  /\ IF disk = NoFile
     THEN Finish(c, "Ok")
     ELSE \/ Finish(c, "ReadFailed")
          \/ /\ disk = Corrupt
             /\ Finish(c, "ParseFailed")
          \/ /\ disk # Corrupt
             /\ call' = [call EXCEPT
                          ![c].pc = "load_insert",
                          ![c].content =
                             [i \in DOMAIN disk |->
                                [id |-> disk[i].id.v, info |-> DecodeServer(disk[i])]]]
  /\ UNCHANGED <<servers, processes, osProc, usedIds, now>>

\* the insert loop under the servers lock; prior keeps the Registry as it
\* was before the loop
LoadInsert_ClearFirst(c) ==
  /\ call[c].pc = "load_insert"
  /\ RegFree
  /\ UNCHANGED aux
  /\ servers' = LoadInto(NoServers, call[c].content)
  /\ call' = [call EXCEPT ![c].pc = "done", ![c].result = "Ok",
                          ![c].prior = servers]
  /\ UNCHANGED <<processes, osProc, usedIds, now>>

LoadInsert(c) ==
  /\ call[c].pc = "load_insert"
  /\ RegFree
  /\ UNCHANGED aux
  /\ servers' = LoadInto(servers, call[c].content)
  /\ call' = [call EXCEPT ![c].pc = "done", ![c].result = "Ok",
                          ![c].prior = servers]
  /\ UNCHANGED <<processes, osProc, usedIds, now>>

\* the application is closed and opened again: ServerManager::new gives an
\* empty Registry and an empty Process Table; the file, the server
\* processes and the identifiers handed out so far stay
AppRestart ==
  /\ \A c \in Callers : call[c].pc = "idle"
  /\ UNCHANGED aux
  /\ servers' = NoServers
  /\ processes' = [id \in ServerIds |-> NoChild]
  /\ UNCHANGED <<osProc, usedIds, now, call>>

\* ---- start_server, from the record's max_memory to the argument list ----
PlanLaunch ==
  /\ ~ret.planned
  /\ \E r \in ParseMemoryMb(arg) :
       ret' = [planned |-> TRUE, parsed |-> r,
               jvm_args |-> IF r = Panic THEN <<>> ELSE JvmArgs(r)]
  /\ UNCHANGED <<servers, processes, osProc, usedIds, now, call>>
  /\ UNCHANGED <<regLock, procLock, disk, snapshot, bridge, policy, appLock, arg>>

\* ---- get_servers / get_server ----
BeginGet(c) == Begin(c, "get", None, "get_read")

\* the servers lock is taken, the records are cloned (kept in prior) and
\* the lock is released
GetRead(c) ==
  /\ call[c].pc = "get_read"
  /\ RegFree
  /\ UNCHANGED aux
  /\ call' = [call EXCEPT ![c].pc = "done", ![c].result = "Ok",
                          ![c].prior = servers]
  /\ UNCHANGED <<servers, processes, osProc, usedIds, now>>

\* ---- the commands of lib.rs ----
\* state.server_manager.lock().await at the top of a command
CmdLock(c) ==
  /\ call[c].pc = "idle"
  /\ appLock = None
  /\ appLock' = c
  /\ UNCHANGED <<servers, processes, osProc, usedIds, now, call>>
  /\ UNCHANGED <<regLock, procLock, disk, snapshot, bridge, policy, arg, ret>>

\* the guard is dropped when the command returns
CmdUnlock(c) ==
  /\ call[c].pc = "idle"
  /\ appLock = c
  /\ appLock' = None
  /\ UNCHANGED <<servers, processes, osProc, usedIds, now, call>>
  /\ UNCHANGED <<regLock, procLock, disk, snapshot, bridge, policy, arg, ret>>

\* ---- set_auto_restart ----
\* the settings a caller chooses from: off, every restart_interval seconds
\* (0: the floor of 60 s applies), daily at 00:05 UTC
PolicyChoices ==
  { NoPolicy,
    [NoPolicy EXCEPT !.auto_restart = TRUE, !.restart_interval = 0],
    [NoPolicy EXCEPT !.auto_restart = TRUE, !.restart_type = "Schedule",
                     !.restart_schedule = Schedule(0, 5, None),
                     !.time_zone = "UTC"] }

BeginSetAuto(c) == \E id \in ServerIds : Begin(c, "set_auto", id, "set_auto")

SetAutoRestart(c) ==
  LET id == call[c].id IN
  /\ call[c].pc = "set_auto"
  /\ RegFree
  /\ IF HasRecord(id)
     THEN /\ \E cfg \in PolicyChoices :
               policy' = [policy EXCEPT ![id] = [cfg EXCEPT !.swept = policy[id].swept]]
          /\ Finish(c, "Ok")
     ELSE /\ UNCHANGED policy
          /\ Finish(c, "NotFound")
  /\ UNCHANGED <<servers, processes, osProc, usedIds, now>>
  /\ UNCHANGED <<regLock, procLock, disk, snapshot, bridge, appLock, arg, ret>>

\* ---- check_and_restart_servers ----
BeginSweep(c) == Begin(c, "sweep", None, "sweep_collect")

\* the pass over the Registry under the servers lock: one outcome per
\* record; a panic ends the call, otherwise the pushed ids are kept in the
\* map's iteration order and the lock is released
SweepCollect(c) ==
  LET ids == {id \in ServerIds : HasRecord(id)} IN
  /\ call[c].pc = "sweep_collect"
  /\ RegFree
  /\ \E f \in [ids -> {"pushed", "skipped", "panic"}] :
       /\ \A id \in ids : f[id] \in SelectOutcomes(servers[id], policy[id], now)
       /\ IF \E id \in ids : f[id] = "panic"
          THEN /\ Finish(c, "Panic")
               /\ UNCHANGED policy
          ELSE /\ \E order \in Orders({id \in ids : f[id] = "pushed"}) :
                    call' = [call EXCEPT ![c].pc = "sweep_next",
                                         ![c].content = order,
                                         ![c].sweeping = TRUE]
               /\ policy' = [id \in ServerIds |->
                               IF id \in ids /\ f[id] = "pushed"
                               THEN [policy[id] EXCEPT !.swept = now]
                               ELSE policy[id]]
  /\ UNCHANGED <<servers, processes, osProc, usedIds, now>>
  /\ UNCHANGED <<regLock, procLock, disk, snapshot, bridge, appLock, arg, ret>>

\* the loop over servers_to_restart: restart_server for the next id, or
\* the end of the call
SweepNext(c) ==
  /\ call[c].pc = "sweep_next"
  /\ UNCHANGED aux
  /\ IF call[c].content = <<>>
     THEN call' = [call EXCEPT ![c].pc = "done", ![c].result = "Ok",
                               ![c].sweeping = FALSE]
     ELSE call' = [call EXCEPT ![c] =
                     [IdleCall EXCEPT !.op = "restart",
                                      !.id = Head(call[c].content),
                                      !.pc = "restart_check",
                                      !.content = Tail(call[c].content),
                                      !.sweeping = TRUE]]
  /\ UNCHANGED <<servers, processes, osProc, usedIds, now>>

\* let _ = restart_server(..): whatever it returned, the loop goes on
SweepResume(c) ==
  /\ call[c].pc = "done"
  /\ call[c].sweeping
  /\ UNCHANGED aux
  /\ call' = [call EXCEPT ![c] =
                [IdleCall EXCEPT !.op = "sweep", !.pc = "sweep_next",
                                 !.content = call[c].content,
                                 !.sweeping = TRUE]]
  /\ UNCHANGED <<servers, processes, osProc, usedIds, now>>

\* time passes
Elapse ==
  /\ \E d \in {30, 300} :
       /\ now + d <= MaxClock
       /\ now' = now + d
  /\ UNCHANGED <<servers, processes, osProc, usedIds, call>>
  /\ UNCHANGED aux

\* ---- one pass of check_and_restart_servers over one record ----
SelectOne ==
  /\ ~ret.planned
  /\ \E o \in SelectOutcomes(arg, arg, arg.t) :
       ret' = [planned |-> TRUE, outcome |-> o]
  /\ UNCHANGED <<servers, processes, osProc, usedIds, now, call>>
  /\ UNCHANGED <<regLock, procLock, disk, snapshot, bridge, policy, appLock, arg>>

\* ---- environment ----
\* a server process ends by itself (it obeyed "stop", or it crashed)
ProcExit(p) ==
  /\ osProc[p].state = "alive"
  /\ osProc' = [osProc EXCEPT ![p].state = "exited"]
  /\ UNCHANGED <<servers, processes, usedIds, now, call>>
  /\ UNCHANGED aux

\* the kill signal takes effect
ProcDie(p) ==
  /\ osProc[p].state = "killed"
  /\ osProc' = [osProc EXCEPT ![p].state = "exited"]
  /\ UNCHANGED <<servers, processes, usedIds, now, call>>
  /\ UNCHANGED aux

Tick ==
  /\ now < MaxTime
  /\ now' = now + 1
  /\ UNCHANGED <<servers, processes, osProc, usedIds, call>>
  /\ UNCHANGED aux

Step(c) ==
  \/ CreateFinish(c)
  \/ StartCheck(c)
  \/ StartSpawn(c)
  \/ StartInsert(c)
  \/ StartSetRunning(c)
  \/ StopCheck(c)
  \/ SendTake(c)
  \/ SendWrite(c)
  \/ SendPutBack(c)
  \/ StopPoll(c)
  \/ StopPollRemove(c)
  \/ StopKill(c)
  \/ StopSetStopped(c)
  \/ RestartCheck(c)
  \/ DeleteRemove(c)
  \/ DeleteDir(c)
  \/ Return(c)

Enter(c) ==
  \/ BeginCreate(c)
  \/ BeginStart(c)
  \/ BeginStop(c)
  \/ BeginRestart(c)
  \/ BeginDelete(c)
  \/ BeginSend(c)

Env ==
  \/ \E p \in Procs : ProcExit(p)
  \/ \E p \in Procs : ProcDie(p)
  \/ Tick

\* callers run concurrently (the methods take &self)
Next ==
  \/ \E c \in Callers : Enter(c)
  \/ \E c \in Callers : Step(c)
  \/ Env

Spec == Init /\ [][Next]_vars

\* one call at a time: a call is entered only when no other is under way
AllIdle == \A c \in Callers : call[c].pc = "idle"

SeqNext ==
  \/ \E c \in Callers : AllIdle /\ Enter(c)
  \/ \E c \in Callers : Step(c)
  \/ Env

SpecSeq == Init /\ [][SeqNext]_vars

\* several stop_server calls at once: records are created and started one
\* call at a time, and stop_server is entered by any idle caller while the
\* only calls under way are other stop_server calls
OnlyStops == \A c \in Callers : call[c].op \in {"none", "stop"}

StopsStep(c) ==
  \/ CreateFinish(c)
  \/ StartCheck(c)
  \/ StartSpawn(c)
  \/ StartInsert(c)
  \/ StartSetRunning(c)
  \/ StopCheck(c)
  \/ SendTake(c)
  \/ SendWrite(c)
  \/ SendPutBack(c)
  \/ StopPoll(c)
  \/ StopPollRemove(c)
  \/ StopKill(c)
  \/ StopSetStopped(c)
  \/ Return(c)

StopsNext ==
  \/ \E c \in Callers : AllIdle /\ BeginCreate(c)
  \/ \E c \in Callers : AllIdle /\ BeginStart(c)
  \/ \E c \in Callers : OnlyStops /\ BeginStop(c)
  \/ \E c \in Callers : StopsStep(c)
  \/ Env

SpecStops == Init /\ [][StopsNext]_vars

\* start_server and stop_server calls overlap freely (records are created
\* one call at a time); the runtime polls every call's future until it is
\* ready, so a call whose next step can be taken takes it
LiveNext ==
  \/ \E c \in Callers : AllIdle /\ BeginCreate(c)
  \/ \E c \in Callers : BeginStart(c)
  \/ \E c \in Callers : BeginStop(c)
  \/ \E c \in Callers : StopsStep(c)
  \/ Env

SpecLive ==
  Init /\ [][LiveNext]_vars /\ \A c \in Callers : WF_vars(StopsStep(c))

\* the Registry and its file: one call at a time among create_server,
\* start_server, stop_server, save_servers and load_servers, and restarts of
\* the application between calls
StoreStep(c) ==
  \/ StopsStep(c)
  \/ SaveCollect(c)
  \/ SaveWrite(c)
  \/ LoadRead(c)
  \/ LoadInsert(c)

StoreNext ==
  \/ \E c \in Callers : AllIdle /\ BeginCreate(c)
  \/ \E c \in Callers : AllIdle /\ BeginStart(c)
  \/ \E c \in Callers : AllIdle /\ BeginStop(c)
  \/ \E c \in Callers : AllIdle /\ BeginSave(c)
  \/ \E c \in Callers : AllIdle /\ BeginLoad(c)
  \/ \E c \in Callers : StoreStep(c)
  \/ AppRestart
  \/ Env

SpecStore == Init /\ [][StoreNext]_vars

\* the scheduler: one call at a time among create_server, start_server,
\* stop_server, set_auto_restart and check_and_restart_servers, whose
\* restarts run inside the pass that collected them
SchedStep(c) ==
  \/ CreateFinish(c)
  \/ StartCheck(c)
  \/ StartSpawn(c)
  \/ StartInsert(c)
  \/ StartSetRunning(c)
  \/ StopCheck(c)
  \/ SendTake(c)
  \/ SendWrite(c)
  \/ SendPutBack(c)
  \/ StopPoll(c)
  \/ StopPollRemove(c)
  \/ StopKill(c)
  \/ StopSetStopped(c)
  \/ RestartCheck(c)
  \/ SetAutoRestart(c)
  \/ SweepCollect(c)
  \/ SweepNext(c)
  \/ SweepResume(c)
  \/ ~call[c].sweeping /\ Return(c)

SchedNext ==
  \/ \E c \in Callers : AllIdle /\ BeginCreate(c)
  \/ \E c \in Callers : AllIdle /\ BeginStart(c)
  \/ \E c \in Callers : AllIdle /\ BeginStop(c)
  \/ \E c \in Callers : AllIdle /\ BeginSetAuto(c)
  \/ \E c \in Callers : AllIdle /\ BeginSweep(c)
  \/ \E c \in Callers : SchedStep(c)
  \/ \E p \in Procs : ProcExit(p)
  \/ \E p \in Procs : ProcDie(p)
  \/ Elapse

SpecSched == Init /\ [][SchedNext]_vars

\* the two locks in use: one call at a time among create, start, stop,
\* restart, delete, send_command and the sweep, overlapped by save_servers
\* and get_servers calls of the other callers (save_servers is the call that
\* keeps a lock from one step to the next)
Lifecycle(c) == call[c].op \notin {"none", "save", "get"}

NoLifecycle == \A c \in Callers : ~Lifecycle(c)

LockStep(c) ==
  \/ Step(c)
  \/ GetRead(c)
  \/ SaveCollect(c)
  \/ SaveWrite(c)
  \/ SweepCollect(c)
  \/ SweepNext(c)

LockNext ==
  \/ \E c \in Callers : NoLifecycle /\ Enter(c)
  \/ \E c \in Callers : NoLifecycle /\ BeginSweep(c)
  \/ \E c \in Callers : BeginGet(c)
  \/ \E c \in Callers : BeginSave(c)
  \/ \E c \in Callers : LockStep(c)
  \/ \E p \in Procs : ProcExit(p)
  \/ \E p \in Procs : ProcDie(p)

SpecLocks == Init /\ [][LockNext]_vars

\* the steps whose block locks self.servers, and those whose block locks
\* self.processes
UsesServers(label) ==
  label \in {"create_finish", "start_check", "start_running", "stop_check",
             "stop_set", "restart_check", "delete_remove", "get_read",
             "save_collect", "save_write", "load_insert", "set_auto",
             "sweep_collect"}

UsesProcesses(label) ==
  label \in {"start_insert", "send_take", "send_put", "stop_poll",
             "stop_poll_remove", "stop_kill"}

\* ---- create_server, from its arguments to the record it returns ----
\* the step of create_server that fails, if one does
CreateFailures ==
  {"none", "create_dir_all", "download_server_jar",
   "create_default_properties", "write_eula"}

\* the record with min_memory left at a fixed default
NewServerInfo_FixedMin(max_memory) ==
  [status |-> "Stopped", pid |-> None, players |-> "0/20",
   max_memory |-> max_memory, min_memory |-> <<"1", "G">>,
   auto_restart |-> FALSE, restart_interval |-> DefaultInterval,
   restart_type |-> "Interval", restart_schedule |-> NoSchedule,
   time_zone |-> NoZone, last_start_time |-> None]

\* the ServerInfo literal of create_server
NewServerInfo(max_memory) ==
  [status |-> "Stopped", pid |-> None, players |-> "0/20",
   max_memory |-> max_memory, min_memory |-> max_memory,
   auto_restart |-> FALSE, restart_interval |-> DefaultInterval,
   restart_type |-> "Interval", restart_schedule |-> NoSchedule,
   time_zone |-> NoZone, last_start_time |-> None]

\* the scheduling fields of a record
PolicyOf(info) ==
  [auto_restart |-> info.auto_restart, restart_type |-> info.restart_type,
   restart_interval |-> info.restart_interval,
   restart_schedule |-> info.restart_schedule,
   time_zone |-> info.time_zone, swept |-> None]

NoCreated == [returned |-> FALSE, ok |-> FALSE, id |-> None, info |-> NewServerInfo(<<>>)]

\* the whole call: a failing step returns its error before the record is
\* built; otherwise the record is inserted under a fresh id and returned
CreateServer ==
  /\ ~ret.returned
  /\ \E id \in ServerIds \ usedIds :
       /\ usedIds' = usedIds \cup {id}
       /\ IF arg.fails = "none"
          THEN LET info == NewServerInfo(arg.max_memory) IN
               /\ servers' = [servers EXCEPT
                                ![id] = ServerInfo(info.status, info.last_start_time)]
               /\ policy' = [policy EXCEPT ![id] = PolicyOf(info)]
               /\ ret' = [returned |-> TRUE, ok |-> TRUE, id |-> id, info |-> info]
          ELSE /\ UNCHANGED <<servers, policy>>
               /\ ret' = [ret EXCEPT !.returned = TRUE]
  /\ UNCHANGED <<processes, osProc, now, call>>
  /\ UNCHANGED <<regLock, procLock, disk, snapshot, bridge, appLock, arg>>

InitCreate ==
  /\ servers = NoServers
  /\ processes = [id \in ServerIds |-> NoChild]
  /\ osProc = [p \in Procs |-> NoProc]
  /\ usedIds = {}
  /\ now = 0
  /\ call = [c \in Callers |-> IdleCall]
  /\ regLock = None
  /\ procLock = None
  /\ disk = NoFile
  /\ snapshot = NoServers
  /\ policy = [id \in ServerIds |-> NoPolicy]
  /\ appLock = None
  /\ arg \in [max_memory : MemoryStrings, fails : CreateFailures]
  /\ ret = NoCreated
  /\ bridge = NoBridge

SpecCreate == InitCreate /\ [][CreateServer]_vars

\* ---- check_and_restart_servers over a Registry of several records ----
\* the records in the map's iteration order (a record's id is its place in
\* it) and the time of the pass
SweepRecords ==
  [status : {"Running", "Stopped"}, last_start_time : {None, 0, 1},
   auto_restart : BOOLEAN, restart_type : {"Interval"},
   restart_interval : {0, MaxWord}, restart_schedule : {NoSchedule},
   time_zone : {NoZone}]

SeqsUpTo(S, n) == UNION {[1..k -> S] : k \in 0..n}

NoSweep == [stage |-> "pass", restart_ids |-> <<>>, called |-> <<>>, failed |-> <<>>]

\* restart_ids after the pass: the pushed ids in iteration order
RestartIds(f) ==
  LET IsPushed(i) == f[i] = "pushed" IN
  SelectSeq([i \in DOMAIN f |-> i], IsPushed)

\* the pass under the servers lock
SweepPass ==
  /\ ret.stage = "pass"
  /\ \E f \in [DOMAIN arg.recs -> {"pushed", "skipped", "panic"}] :
       /\ \A i \in DOMAIN f :
            f[i] \in SelectOutcomes(arg.recs[i], arg.recs[i], arg.t)
       /\ IF \E i \in DOMAIN f : f[i] = "panic"
          THEN ret' = [ret EXCEPT !.stage = "panic"]
          ELSE ret' = [ret EXCEPT !.stage = "loop", !.restart_ids = RestartIds(f)]
  /\ UNCHANGED <<servers, processes, osProc, usedIds, now, call>>
  /\ UNCHANGED <<regLock, procLock, disk, snapshot, bridge, policy, appLock, arg>>

\* the loop that returns at the first restart_server that fails
SweepLoop_StopOnError ==
  /\ ret.stage = "loop"
  /\ Len(ret.called) < Len(ret.restart_ids)
  /\ \E ok \in BOOLEAN :
       ret' = [ret EXCEPT !.called = Append(@, ret.restart_ids[Len(@) + 1]),
                          !.failed = Append(@, ~ok),
                          !.stage = IF ok THEN "loop" ELSE "done"]
  /\ UNCHANGED <<servers, processes, osProc, usedIds, now, call>>
  /\ UNCHANGED <<regLock, procLock, disk, snapshot, bridge, policy, appLock, arg>>

\* let _ = self.restart_server(&id).await for the next id: the call
\* succeeds or fails, and its result is dropped
SweepLoop ==
  /\ ret.stage = "loop"
  /\ Len(ret.called) < Len(ret.restart_ids)
  /\ \E ok \in BOOLEAN :
       ret' = [ret EXCEPT !.called = Append(@, ret.restart_ids[Len(@) + 1]),
                          !.failed = Append(@, ~ok)]
  /\ UNCHANGED <<servers, processes, osProc, usedIds, now, call>>
  /\ UNCHANGED <<regLock, procLock, disk, snapshot, bridge, policy, appLock, arg>>

\* the end of the for loop
SweepReturn ==
  /\ ret.stage = "loop"
  /\ Len(ret.called) = Len(ret.restart_ids)
  /\ ret' = [ret EXCEPT !.stage = "done"]
  /\ UNCHANGED <<servers, processes, osProc, usedIds, now, call>>
  /\ UNCHANGED <<regLock, procLock, disk, snapshot, bridge, policy, appLock, arg>>

InitSweep ==
  /\ servers = NoServers
  /\ processes = [id \in ServerIds |-> NoChild]
  /\ osProc = [p \in Procs |-> NoProc]
  /\ usedIds = {}
  /\ now = 0
  /\ call = [c \in Callers |-> IdleCall]
  /\ regLock = None
  /\ procLock = None
  /\ disk = NoFile
  /\ snapshot = NoServers
  /\ policy = [id \in ServerIds |-> NoPolicy]
  /\ appLock = None
  /\ arg \in [t : {59, 61}, recs : SeqsUpTo(SweepRecords, MaxRecs)]
  /\ ret = NoSweep
  /\ bridge = NoBridge

SweepPassNext ==
  \/ SweepPass
  \/ SweepLoop
  \/ SweepReturn

SpecSweep == InitSweep /\ [][SweepPassNext]_vars

\* the application: every command locks the ServerManager, makes its calls
\* (create_server and delete_server are followed by save_servers) and
\* unlocks; the commands themselves are issued concurrently
AppEnter(c) ==
  \/ BeginCreate(c)
  \/ BeginStart(c)
  \/ BeginStop(c)
  \/ BeginRestart(c)
  \/ BeginDelete(c)
  \/ BeginSend(c)
  \/ BeginSave(c)
  \/ BeginGet(c)

AppStep(c) ==
  \/ Step(c)
  \/ SaveCollect(c)
  \/ SaveWrite(c)
  \/ GetRead(c)

AppNext ==
  \/ \E c \in Callers : CmdLock(c)
  \/ \E c \in Callers : appLock = c /\ AppEnter(c)
  \/ \E c \in Callers : AppStep(c)
  \/ \E c \in Callers : CmdUnlock(c)
  \/ Env

SpecApp == Init /\ [][AppNext]_vars

\* the launch planner on its own: max_memory is any of the memory strings
InitMem ==
  /\ servers = NoServers
  /\ processes = [id \in ServerIds |-> NoChild]
  /\ osProc = [p \in Procs |-> NoProc]
  /\ usedIds = {}
  /\ now = 0
  /\ call = [c \in Callers |-> IdleCall]
  /\ regLock = None
  /\ procLock = None
  /\ disk = NoFile
  /\ snapshot = NoServers
  /\ policy = [id \in ServerIds |-> NoPolicy]
  /\ appLock = None
  /\ arg \in MemoryStrings
  /\ ret = NoRet
  /\ bridge = NoBridge

SpecMem == InitMem /\ [][PlanLaunch]_vars

\* the selection on its own: one record in any status with any scheduling
\* fields, looked at by one pass at time t
InitSelect ==
  /\ servers = NoServers
  /\ processes = [id \in ServerIds |-> NoChild]
  /\ osProc = [p \in Procs |-> NoProc]
  /\ usedIds = {}
  /\ now = 0
  /\ call = [c \in Callers |-> IdleCall]
  /\ regLock = None
  /\ procLock = None
  /\ disk = NoFile
  /\ snapshot = NoServers
  /\ policy = [id \in ServerIds |-> NoPolicy]
  /\ appLock = None
  /\ arg \in SweepInputs
  /\ ret = NoRet
  /\ bridge = NoBridge

SpecSelect == InitSelect /\ [][SelectOne]_vars

\* ---- properties ----
StartOps == {"start", "restart"}

\* the call of c is at a point where stop_server has just returned
StopReturned(c) ==
  \/ call[c].op = "stop" /\ call[c].pc = "done"
  \/ call[c].op = "restart" /\ call[c].pc = "start_check" /\ call[c].did_stop
  \/ call[c].op = "delete" /\ call[c].pc = "delete_remove"

ProcsOf(id) == {p \in Procs : osProc[p].state # "none" /\ osProc[p].sid = id}

\* C1: for every server id, status Stopped implies that the Process Table
\* has no entry for the id and status Running implies that it has one
\* (the table is a map, so one entry at most), in every reachable state.
C1_StatusAgreesWithTable ==
  \A id \in ServerIds :
    /\ servers[id].status = "Stopped" => ~HasChild(id)
    /\ servers[id].status = "Running" => HasChild(id)

\* C2: whenever a call of stop_server(id) returns, on any of its return
\* paths, the Process Table has no entry for id.
C2_NoEntryWhenStopReturns ==
  [][\A c \in Callers :
       (~StopReturned(c) /\ StopReturned(c)') => ~HasChild(call[c].id)']_vars

\* C3: when start_server returns the spawn error the record's status is
\* Stopped, and no returned start_server leaves the record in Starting.
C3_FailedStartLeavesStopped ==
  \A c \in Callers :
    (call[c].op \in StartOps /\ call[c].pc = "done" /\ HasRecord(call[c].id)) =>
      /\ call[c].result = "SpawnFailed" => servers[call[c].id].status = "Stopped"
      /\ servers[call[c].id].status # "Starting"

\* C4: the status check of start_server fails with NotFound when there is
\* no record and with AlreadyRunning when the status is Running, and that
\* step changes neither the Registry nor the Process Table and spawns
\* nothing.
C4_StartRejects ==
  [][\A c \in Callers :
       (call[c].pc = "start_check" /\ call'[c] # call[c]
          /\ (~HasRecord(call[c].id) \/ servers[call[c].id].status = "Running")) =>
         /\ call'[c].pc = "done"
         /\ call'[c].result = IF HasRecord(call[c].id) THEN "AlreadyRunning" ELSE "NotFound"
         /\ UNCHANGED <<servers, processes, osProc>>]_vars

C4_Witness ==
  \E c \in Callers :
    /\ call[c].op = "start" /\ call[c].pc = "done"
    /\ call[c].result = "AlreadyRunning"
    /\ servers[call[c].id].status = "Running"
    /\ servers[call[c].id].last_start_time # now

\* C5: with one call at a time, a start_server that returns success leaves
\* status Running, last_start_time set and a handle in the table; while it
\* runs, the status is Starting with the stamp before the spawn, the
\* process is spawned before its handle is inserted, and the status is
\* Running only after the handle is in the table.
C5_StartOrder ==
  /\ \A id \in ServerIds : servers[id].status = "Running" => HasChild(id)
  /\ \A c \in Callers :
       call[c].op \in StartOps =>
         LET id == call[c].id IN
         /\ call[c].pc = "start_spawn" =>
              /\ servers[id].status = "Starting"
              /\ servers[id].last_start_time # None
              /\ ~HasChild(id) /\ call[c].child = None
         /\ call[c].pc = "start_insert" =>
              /\ servers[id].status = "Starting"
              /\ osProc[call[c].child].state # "none"
              /\ ~HasChild(id)
         /\ call[c].pc = "start_running" =>
              /\ servers[id].status = "Starting"
              /\ HasChild(id)
         /\ (call[c].pc = "done" /\ call[c].result = "Ok") =>
              /\ servers[id].status = "Running"
              /\ servers[id].last_start_time # None
              /\ HasChild(id)

C5_Witness ==
  \E c \in Callers :
    /\ call[c].op = "start" /\ call[c].pc = "done" /\ call[c].result = "Ok"
    /\ servers[call[c].id].status = "Running"
    /\ HasChild(call[c].id)

\* C6: with one call at a time, a returned stop_server leaves status
\* Stopped, last_start_time cleared and no table entry, and a stop_server
\* on a Stopped record returns success at its status check without
\* changing the Registry or the Process Table, writing or killing.
C6_StopIdempotent ==
  /\ [](\A c \in Callers :
          (call[c].op = "stop" /\ call[c].pc = "done") =>
            /\ call[c].result = "Ok"
            /\ ~HasChild(call[c].id)
            /\ HasRecord(call[c].id) =>
                 /\ servers[call[c].id].status = "Stopped"
                 /\ servers[call[c].id].last_start_time = None)
  /\ [][\A c \in Callers :
          (call[c].op = "stop" /\ call[c].pc = "stop_check" /\ call'[c] # call[c]
             /\ servers[call[c].id].status = "Stopped") =>
            /\ call'[c].pc = "done" /\ call'[c].result = "Ok"
            /\ ~call'[c].wrote /\ ~call'[c].killed
            /\ UNCHANGED <<servers, processes, osProc>>]_vars

\* a stop_server has returned without any teardown on a record whose
\* process had been started and stopped before
C6_Witness ==
  \E c \in Callers :
    /\ call[c].op = "stop" /\ call[c].pc = "done"
    /\ ~call[c].wrote /\ ~call[c].killed
    /\ servers[call[c].id].status = "Stopped"
    /\ ProcsOf(call[c].id) # {}

\* C7: when stop_server(id) returns, every process spawned for id has
\* exited: its exit was observed or the forced kill has taken effect.
C7_ExitedWhenStopReturns ==
  \A c \in Callers :
    StopReturned(c) => \A p \in ProcsOf(call[c].id) : osProc[p].state = "exited"

\* C8: restart_server fails with NotFound when there is no record, runs
\* stop_server then start_server when the status is Running or Starting
\* and only start_server when it is Stopped; with one call at a time a
\* successful restart leaves status Running and a table entry.
C8_Restart ==
  /\ [](\A c \in Callers :
          (call[c].op = "restart" /\ call[c].pc = "done") =>
            /\ call[c].result = "NotFound" => ~call[c].did_stop
            /\ call[c].result = "Ok" =>
                 /\ servers[call[c].id].status = "Running"
                 /\ HasChild(call[c].id)
                 /\ call[c].did_stop <=> call[c].status \in {"Running", "Starting"})
  /\ [][\A c \in Callers :
          (call[c].pc = "restart_check" /\ call'[c] # call[c]) =>
            LET st == servers[call[c].id].status IN
            /\ ~HasRecord(call[c].id) =>
                 call'[c].pc = "done" /\ call'[c].result = "NotFound"
            /\ st \in {"Running", "Starting"} => call'[c].pc = "stop_check"
            /\ st = "Stopped" => call'[c].pc = "start_check"
            /\ UNCHANGED <<servers, processes, osProc>>]_vars

C8_Witness ==
  \E c \in Callers :
    /\ call[c].op = "restart" /\ call[c].pc = "done" /\ call[c].result = "Ok"
    /\ call[c].did_stop /\ call[c].status = "Starting"
    /\ servers[call[c].id].status = "Running"

\* C9: in a restart_server the old table entry is gone before the new one
\* is inserted, and when its start half has spawned the new process no
\* earlier process of the same id is still alive and not yet killed.
C9_RestartNoOverlap ==
  \A c \in Callers :
    (call[c].op = "restart" /\ call[c].pc = "start_insert") =>
      /\ HasChild(call[c].id) => processes[call[c].id].proc > call[c].child
      /\ \A p \in ProcsOf(call[c].id) : p < call[c].child => osProc[p].state # "alive"

\* C10: send_command on an id without a table entry fails with the
\* not-running error, writes nothing and changes neither the Registry nor
\* the Process Table.
C10_SendNotRunning ==
  [][\A c \in Callers :
       (call[c].pc = "send_take" /\ call'[c] # call[c] /\ ~HasChild(call[c].id)) =>
         /\ call[c].op = "send" =>
              call'[c].pc = "done" /\ call'[c].result = "NotRunning"
         /\ call[c].op # "send" => call'[c].pc = "stop_kill"
         /\ ~call'[c].wrote
         /\ UNCHANGED <<servers, processes, osProc>>]_vars

C10_Witness ==
  \E c \in Callers :
    /\ call[c].op = "send" /\ call[c].pc = "done"
    /\ call[c].result = "NotRunning"
    /\ HasRecord(call[c].id) /\ ~HasChild(call[c].id)

\* the caller has taken a stdin stream out of a table entry
Holds(c) == call[c].stdin_handle # None

\* C11: a stdin stream is held by at most one caller at a time, under any
\* interleaving: whoever is writing holds the stream, nobody else holds it,
\* no table entry still contains it, and the writer does not hold the
\* Process Table lock.
C11_OneWriter ==
  \A c \in Callers :
    /\ call[c].pc \in {"send_write", "send_put"} <=> Holds(c)
    /\ Holds(c) =>
         /\ \A d \in Callers \ {c} : call[d].stdin_handle # call[c].stdin_handle
         /\ \A id \in ServerIds : processes[id].stdin # call[c].stdin_handle
         /\ procLock # c

\* one caller is writing while another send_command on the same id was
\* turned away because the stream was taken
C11_Witness ==
  \E c \in Callers : \E d \in Callers \ {c} :
    /\ call[c].pc = "send_write"
    /\ call[d].op = "send" /\ call[d].pc = "done"
    /\ call[d].result = "StdinUnavailable"
    /\ call[d].id = call[c].id

\* C12: when a send_command has completed, by success or by failure, and the
\* table entry for the id still exists, the entry holds its stdin stream.
C12_StdinReturned ==
  [][\A c \in Callers :
       (Holds(c) /\ ~Holds(c)' /\ HasChild(call[c].id)') =>
         processes'[call[c].id].stdin # None]_vars

\* the call of c runs stop_server, directly or inside restart or delete
InStop(c) == call[c].op \in {"stop", "restart", "delete"}

\* the last process spawned for the id
LastProc(id) == CHOOSE p \in ProcsOf(id) : \A q \in ProcsOf(id) : q <= p

\* C13: when the courtesy send of stop_server fails, at the take or at the
\* write, the grace-period poll is skipped and the teardown goes on: the
\* kill block removes and kills any handle in the table, the last block
\* sets Stopped, clears last_start_time and stop_server returns success.
C13_SendFailureSkipsGrace ==
  /\ [](\A c \in Callers :
          (InStop(c) /\ call[c].pc \in {"stop_kill", "stop_set"} /\ ~call[c].wrote) =>
            call[c].polls = 0)
  /\ [][\A c \in Callers :
          (InStop(c) /\ call'[c] # call[c]) =>
            LET id == call[c].id IN
            /\ (call[c].pc \in {"send_take", "send_write"}
                  /\ call'[c].pc \notin {"send_write", "send_put"}) =>
                 call'[c].pc = "stop_kill"
            /\ call[c].pc = "stop_kill" =>
                 /\ call'[c].pc = "stop_set"
                 /\ ~HasChild(id)'
                 /\ HasChild(id) =>
                      /\ call'[c].killed
                      /\ osProc'[processes[id].proc].state # "alive"
            /\ call[c].pc = "stop_set" =>
                 /\ StopReturned(c)'
                 /\ call[c].op = "stop" => call'[c].result = "Ok"
                 /\ HasRecord(id) =>
                      /\ servers'[id].status = "Stopped"
                      /\ servers'[id].last_start_time = None]_vars

\* a stop_server whose courtesy send failed has killed the handle and
\* returned success
C13_Witness ==
  \E c \in Callers :
    /\ call[c].op = "stop" /\ call[c].pc = "done" /\ call[c].result = "Ok"
    /\ ~call[c].wrote /\ call[c].killed
    /\ servers[call[c].id].status = "Stopped"
    /\ ~HasChild(call[c].id)

\* C14: with one call at a time and the courtesy command sent, a poll that
\* sees the process exited ends the loop, the entry is removed and no
\* start_kill is issued; if no poll sees an exit the loop is left when the
\* ceiling is reached and start_kill is issued exactly once.
C14_GracefulOutcome ==
  /\ [](\A c \in Callers :
          (InStop(c) /\ call[c].wrote) =>
            LET id == call[c].id IN
            /\ call[c].pc = "stop_kill" =>
                 IF call[c].polls < PollCeiling
                 THEN ~HasChild(id) /\ osProc[LastProc(id)].state = "exited"
                 ELSE HasChild(id)
            /\ call[c].pc = "stop_set" =>
                 IF call[c].polls < PollCeiling
                 THEN ~call[c].killed /\ osProc[LastProc(id)].kills = 0
                 ELSE call[c].killed /\ osProc[LastProc(id)].kills = 1)
  /\ [][\A c \in Callers :
          (call[c].pc = "stop_poll" /\ call'[c] # call[c]) =>
            LET id == call[c].id IN
            /\ UNCHANGED <<processes, osProc>>
            /\ call'[c].pc =
                 IF call[c].polls >= PollCeiling THEN "stop_kill"
                 ELSE IF osProc[processes[id].proc].state = "exited"
                 THEN "stop_poll_remove" ELSE "stop_poll"]_vars

\* the exit was seen by a poll before the ceiling and nothing was killed
C14_Witness ==
  \E c \in Callers :
    /\ call[c].op = "stop" /\ call[c].pc = "stop_set"
    /\ call[c].wrote /\ ~call[c].killed
    /\ call[c].polls < PollCeiling
    /\ osProc[LastProc(call[c].id)].state = "exited"

\* the call of c is a stop_server past its status check
InTeardown(c) ==
  /\ call[c].op = "stop"
  /\ call[c].pc \in {"send_take", "send_write", "send_put", "stop_poll",
                     "stop_poll_remove", "stop_kill", "stop_set"}

\* C15: when stop_server calls on a record overlap, at most one of them is
\* past the status check at a time and the record is Stopping while it is; a tracked
\* process is written the courtesy command at most once and start_kill is
\* called at most once for a process.
C15_OneTeardown ==
  /\ \A id \in ServerIds :
       HasRecord(id) =>
         Cardinality({c \in Callers : InTeardown(c) /\ call[c].id = id}) <= 1
  /\ \A c \in Callers :
       (InTeardown(c) /\ HasRecord(call[c].id)) =>
         servers[call[c].id].status = "Stopping"
  /\ \A id \in ServerIds : processes[id].stops <= 1
  /\ \A p \in Procs : osProc[p].kills <= 1

\* one caller is in the grace period of a Running record's teardown and
\* another stop_server on the same id has returned without doing anything
C15_Witness ==
  \E c \in Callers : \E d \in Callers \ {c} :
    /\ InTeardown(c) /\ call[c].pc = "stop_poll" /\ call[c].wrote
    /\ processes[call[c].id].stops = 1
    /\ call[d].op = "stop" /\ call[d].pc = "done" /\ call[d].id = call[c].id
    /\ ~call[d].wrote /\ ~call[d].killed
\* C16: every key of the process table is the id of a record of the
\* registry, and once delete_server has returned Ok or the directory error
\* there is neither a record nor a table entry for its id -- refuted when
\* delete_server overlaps a start_server that is past its status check
C16_NoStaleHandles ==
  /\ [](\A id \in ServerIds : HasChild(id) => HasRecord(id))
  /\ [][\A c \in Callers :
          (/\ call[c].op = "delete"
           /\ call[c].pc = "delete_dir"
           /\ call'[c].pc = "done")
          => (~HasRecord(call[c].id)' /\ ~HasChild(call[c].id)')]_vars

\* C17: a delete_server whose directory removal fails returns that error
\* with the record already removed; a delete_server on an id without a
\* record returns NotFound, and no step taken while it is under way
\* changes the registry
C17_DeleteErrors ==
  [][\A c \in Callers :
       call[c].op = "delete" =>
         /\ (call[c].pc = "delete_dir" /\ call'[c].result = "DirDeleteFailed")
              => (call'[c].pc = "done" /\ ~HasRecord(call[c].id)')
         /\ (/\ call[c].pc = "delete_remove"
             /\ call'[c] # call[c]
             /\ ~HasRecord(call[c].id))
              => (call'[c].pc = "done" /\ call'[c].result = "NotFound")
         /\ (call[c].pc \notin {"delete_dir", "done"} /\ ~HasRecord(call[c].id))
              => servers' = servers]_vars

C17_Witness ==
  \E c \in Callers :
    /\ call[c].op = "delete"
    /\ call[c].pc = "done"
    /\ call[c].result = "DirDeleteFailed"
    /\ ~HasRecord(call[c].id)

\* the step in which load_servers of caller c finishes its insert loop
LoadDone(c) == call[c].pc = "load_insert" /\ call'[c].pc = "done"

\* C18: every record that load_servers puts into the registry has status
\* Stopped, whatever status the file holds for it -- refuted: the status is
\* inserted as it was persisted
C18_LoadedStopped ==
  [][\A c \in Callers :
       LoadDone(c) =>
         \A i \in DOMAIN call[c].content :
           servers'[call[c].content[i].id].status = "Stopped"]_vars

C20_LoadMerges ==
  [][\A c \in Callers :
       /\ LoadDone(c) =>
            /\ \A id \in ServerIds \ {disk[i].id.v : i \in DOMAIN disk} :
                 servers'[id] = servers[id]
            /\ \A i \in DOMAIN disk :
                 EncodeServer(disk[i].id.v, servers'[disk[i].id.v]) = disk[i]
            /\ LoadInto(servers', call[c].content) = servers'
       /\ (call[c].pc = "load_read" /\ call'[c] # call[c] /\ disk = NoFile)
            => /\ call'[c].pc = "done"
               /\ call'[c].result = "Ok"
               /\ servers' = servers]_vars

C20_Witness ==
  \E c \in Callers :
    /\ call[c].op = "load"
    /\ call[c].pc = "done"
    /\ call[c].prior # <<>>
    /\ \E id \in ServerIds :
         /\ call[c].prior[id] # NoServer
         /\ call[c].prior[id] # servers[id]

\* the value of a string of decimal digits
RECURSIVE Decimal(_)
Decimal(s) ==
  IF s = <<>> THEN 0 ELSE Decimal(ButLast(s)) * 10 + DigitValue(s[Len(s)])

Unsigned(s) == IF s # <<>> /\ Head(s) = "+" THEN Tail(s) ELSE s

\* s is a decimal number that a u64 can hold
IsNumber(s) ==
  /\ Unsigned(s) # <<>>
  /\ \A i \in DOMAIN Unsigned(s) : Unsigned(s)[i] \in Digits
  /\ Decimal(Unsigned(s)) <= MaxWord

NumberOf(s) == Decimal(Unsigned(s))

\* what the memory string reads as: megabytes, or None
MegabytesOf(memory) ==
  LET t == ToUppercase(Trim(memory)) IN
  IF EndsWith(t, "G") /\ IsNumber(ButLast(t)) THEN NumberOf(ButLast(t)) * GigaFactor
  ELSE IF EndsWith(t, "M") /\ IsNumber(ButLast(t)) THEN NumberOf(ButLast(t))
  ELSE IF IsNumber(t) THEN NumberOf(t)
  ELSE None

\* C28: parse_memory_mb trims and ignores case; a number with suffix G gives
\* the number times 1024 (where that product fits a u64), with suffix M or
\* with no suffix the number, anything else is absent; "4G" gives 4096,
\* "2048M" 2048, "512" 512 and "abc" absent
C28_ParseMemory ==
  (ret.planned /\ MegabytesOf(arg) <= MaxWord) =>
    /\ ret.parsed = MegabytesOf(arg)
    /\ arg = <<"4", "G">> => ret.parsed = 4096
    /\ arg = <<"2", "0", "4", "8", "M">> => ret.parsed = 2048
    /\ arg = <<"5", "1", "2">> => ret.parsed = 512
    /\ arg = <<"a", "b", "c">> => ret.parsed = None

C28_Witness ==
  /\ ret.planned
  /\ arg = <<" ", "4", "g", " ">>
  /\ ret.parsed = 4096

\* C29: parse_memory_mb never aborts, whatever the string, and a
\* max_memory that does not parse launches with no tier flags -- refuted
\* by a G-suffixed number whose product with 1024 does not fit the word
C29_NeverFatal ==
  ret.planned =>
    /\ ret.parsed # Panic
    /\ ret.parsed = None => ret.jvm_args = BaseArgs

TierSlots == (TierBase + 1)..(TierBase + 4)

TierFlags == {LargeTier[k] : k \in 1..4} \cup {DefaultTier[k] : k \in 1..4}

\* C30: a max_memory that parses to 12288 MB or more gets the four
\* large-heap flags, one that parses to less gets the four default flags,
\* always at the same four positions, and no tier flag stands anywhere else
C30_TierSelection ==
  (ret.planned /\ ret.parsed \notin {Panic, None}) =>
    LET tier == IF ret.parsed >= TierThreshold THEN LargeTier ELSE DefaultTier IN
    /\ Len(ret.jvm_args) = Len(BaseArgs) + 4
    /\ \A k \in 1..4 : ret.jvm_args[TierBase + k] = tier[k]
    /\ \A i \in DOMAIN ret.jvm_args :
         i \notin TierSlots =>
           /\ ret.jvm_args[i] \notin TierFlags
           /\ ret.jvm_args[i] = BaseArgs[IF i <= TierBase THEN i ELSE i - 4]

C30_Witness ==
  /\ ret.planned
  /\ arg = <<"1", "6", "G">>
  /\ ret.parsed = 16384
  /\ ret.jvm_args[8] = "-XX:G1NewSizePercent=40"
  /\ ret.jvm_args[11] = "-XX:InitiatingHeapOccupancyPercent=15"

\* C21: a pass pushes a Running, auto-restart, interval-policy record if
\* and only if now >= last_start_time + max(restart_interval, 60): interval
\* 3600 is pushed 3700 s after the start and not 100 s after it, and no
\* interval leads to a restart before 60 s have passed -- refuted when
\* last_start_time + restart_interval does not fit a u64
C21_IntervalPolicy ==
  (/\ ret.planned
   /\ arg.status = "Running"
   /\ arg.auto_restart
   /\ arg.restart_type = "Interval"
   /\ arg.last_start_time # None) =>
    /\ ret.outcome # "panic"
    /\ ret.outcome = "pushed" <=>
         arg.t >= arg.last_start_time + Max(arg.restart_interval, MinInterval)
    /\ ret.outcome = "pushed" => arg.t >= arg.last_start_time + MinInterval

Collected(c) == call[c].pc = "sweep_collect" /\ call'[c].pc = "sweep_next"

Pushed(c) == {call'[c].content[i] : i \in DOMAIN call'[c].content}

\* C23: a pass does not push a schedule-policy record that an earlier pass
\* pushed less than 300 s before: of two passes that see the record in its
\* target minute within the guard window, only the first restarts it
C23_OneRestartPerWindow ==
  [][\A c \in Callers :
       Collected(c) =>
         \A id \in Pushed(c) :
           (policy[id].restart_type = "Schedule" /\ policy[id].swept # None)
             => now >= policy[id].swept + GuardWindow]_vars

C23_Witness ==
  \E c \in Callers :
    /\ call[c].op = "sweep"
    /\ call[c].pc = "sweep_next"
    /\ call[c].content = <<>>
    /\ \E id \in ServerIds :
         /\ servers[id].status = "Running"
         /\ policy[id].auto_restart
         /\ policy[id].restart_type = "Schedule"
         /\ ClockMatches(policy[id], now)
         /\ policy[id].swept # None
         /\ ClockMatches(policy[id], policy[id].swept)
         /\ now > policy[id].swept
         /\ now < policy[id].swept + GuardWindow

\* C24: the ids a pass pushes are those of records that have auto_restart
\* on and status Running during the pass; the pass itself changes no
\* record and no table entry and leaves the lock free, and each restart
\* that follows is restart_server on the next collected id
C24_SweepSelection ==
  [][\A c \in Callers :
       /\ Collected(c) =>
            /\ \A id \in Pushed(c) :
                 /\ HasRecord(id)
                 /\ policy[id].auto_restart
                 /\ servers[id].status = "Running"
            /\ servers' = servers
            /\ processes' = processes
            /\ regLock' = None
       /\ (call[c].pc = "sweep_next" /\ call'[c] # call[c]) =>
            IF call[c].content = <<>>
            THEN call'[c].pc = "done"
            ELSE /\ call'[c].op = "restart"
                 /\ call'[c].pc = "restart_check"
                 /\ call'[c].id = Head(call[c].content)
                 /\ call'[c].content = Tail(call[c].content)
       /\ (call[c].sweeping /\ call'[c].sweeping /\ call[c].op = "restart") =>
            call'[c].op = "sweep" \/ call'[c].id = call[c].id]_vars

C24_Witness ==
  \E c \in Callers :
    /\ call[c].sweeping
    /\ call[c].op = "restart"
    /\ call[c].pc = "start_spawn"
    /\ call[c].did_stop

\* no call on record id is under way
Quiet(id) ==
  \A c \in Callers : call[c].id = id => call[c].pc \in {"idle", "done"}

\* C25: with no call under way on a record, Running goes with a
\* last_start_time and Stopped with none; only the status block of
\* start_server sets last_start_time and only the last step of stop_server
\* clears it -- refuted when a stop_server overlaps a start_server
C25_LastStartTime ==
  /\ [](\A id \in ServerIds :
          (HasRecord(id) /\ Quiet(id)) =>
            /\ servers[id].status = "Running" => servers[id].last_start_time # None
            /\ servers[id].status = "Stopped" => servers[id].last_start_time = None)
  /\ [][\A id \in ServerIds :
          (HasRecord(id) /\ HasRecord(id)') =>
            /\ (servers[id].last_start_time = None /\ servers'[id].last_start_time # None)
                 => \E c \in Callers :
                      call[c].id = id /\ call[c].pc = "start_check"
                        /\ call'[c].pc = "start_spawn"
            /\ (servers[id].last_start_time # None /\ servers'[id].last_start_time = None)
                 => \E c \in Callers :
                      call[c].id = id /\ call[c].pc = "stop_set"
                        /\ call'[c].pc # "stop_set"]_vars

\* caller c is in a slow OS-level step: spawning, writing to stdin, in the
\* grace period of stop_server or at its kill
Slow(c) == call[c].pc \in {"start_spawn", "send_write", "stop_poll", "stop_kill"}

\* C26: while a call is in a slow OS-level step, a status query of another
\* caller finds every lock it needs free: the lock around the ServerManager
\* and the servers lock -- refuted: the command that makes the slow call
\* holds the lock around the ServerManager until it returns
C26_ReadsNotBlocked ==
  \A c \in Callers :
    Slow(c) =>
      /\ RegFree
      /\ \A q \in Callers \ {c} : call[q].pc = "idle" => appLock \in {None, q}

\* caller c is at an I/O-bound or blocking step
AtIO(c) ==
  call[c].pc \in {"start_spawn", "send_write", "stop_poll", "save_write",
                  "load_read", "delete_dir"}

\* C27: at no I/O-bound or blocking step does the caller hold the servers
\* lock or the processes lock -- refuted: save_servers keeps the servers
\* lock while it writes the file
C27_NoLockAcrossIO ==
  \A c \in Callers : AtIO(c) => (regLock # c /\ procLock # c)

\* the collector flags of the initial vector, between the heap flags and -jar
GcBaseline == {BaseArgs[k] : k \in 3..15}

IsTierFlag(x) == x \in TierFlags

NotTierFlag(x) == x \notin TierFlags

\* C31 as stated: heap flags first, then every baseline collector flag, then
\* the tier flags, then -jar, the jar and nogui; no tier flag stands before
\* a baseline flag -- refuted: the tier flags are inserted at index 7
C31_TierAfterBaseline ==
  (ret.planned /\ ret.parsed # Panic) =>
    LET v == ret.jvm_args IN
    /\ v[1] = "-Xmx" /\ v[2] = "-Xms"
    /\ SubSeq(v, Len(v) - 2, Len(v)) = <<"-jar", "server.jar", "nogui">>
    /\ \A i, j \in DOMAIN v :
         (v[i] \in TierFlags /\ v[j] \in GcBaseline) => j < i

\* C31 amended: heap flags first; -jar, the jar and nogui last; the baseline
\* flags keep their order; the tier flags, when there are any, stand
\* together in their own order right before -XX:+AlwaysPreTouch, with five
\* baseline flags before them and eight after them
C31_ArgumentOrder ==
  (ret.planned /\ ret.parsed # Panic) =>
    LET v == ret.jvm_args
        tier == SelectSeq(v, IsTierFlag)
    IN
    /\ v[1] = "-Xmx" /\ v[2] = "-Xms"
    /\ SubSeq(v, Len(v) - 2, Len(v)) = <<"-jar", "server.jar", "nogui">>
    /\ SelectSeq(v, NotTierFlag) = BaseArgs
    /\ ret.parsed = None => tier = <<>>
    /\ ret.parsed # None =>
         /\ tier \in {LargeTier, DefaultTier}
         /\ SubSeq(v, 1, 7) = SubSeq(BaseArgs, 1, 7)
         /\ SubSeq(v, 8, 11) = tier
         /\ v[12] = "-XX:+AlwaysPreTouch"
         /\ SubSeq(v, 12, Len(v)) = SubSeq(BaseArgs, 8, Len(BaseArgs))
         /\ Cardinality({j \in DOMAIN v : v[j] \in GcBaseline /\ j < 8}) = 5
         /\ Cardinality({j \in DOMAIN v : v[j] \in GcBaseline /\ j > 11}) = 8

C31_Witness ==
  /\ ret.planned
  /\ arg = <<"4", "G">>
  /\ ret.parsed = 4096
  /\ ret.jvm_args[8] = "-XX:G1NewSizePercent=30"
  /\ ret.jvm_args[12] = "-XX:+AlwaysPreTouch"
  /\ ret.jvm_args[22] = "nogui"

\* caller c is inside stop_server (called directly or by restart_server or
\* delete_server)
InStopBody(c) ==
  /\ call[c].op \in {"stop", "restart", "delete"}
  /\ call[c].pc \in {"stop_check", "send_take", "send_write", "send_put",
                      "stop_poll", "stop_poll_remove", "stop_kill", "stop_set"}

C33_DocumentedForm ==
  (/\ ret.planned
   /\ arg.status = "Running"
   /\ arg.auto_restart
   /\ arg.restart_type = "Schedule"
   /\ arg.restart_schedule # NoSchedule
   /\ arg.restart_schedule.ss # None
   /\ arg.restart_schedule.hh <= 23
   /\ arg.restart_schedule.mm <= 59
   /\ arg.restart_schedule.ss <= 59
   /\ arg.time_zone \in KnownZones
   /\ arg.last_start_time # None => arg.t - arg.last_start_time > GuardWindow
   /\ HourAt(arg.t, arg.time_zone) = arg.restart_schedule.hh
   /\ MinuteAt(arg.t, arg.time_zone) = arg.restart_schedule.mm) =>
    ret.outcome = "pushed"

\* C34: no caller holds the servers lock and the processes lock together: a
\* caller holding one of them is not at a step that takes the other; and
\* the calls never block each other for good: a call under way can take its
\* next step, or a lock is held by a caller that can take its next step
C34_NoTwoLocks ==
  /\ \A c \in Callers : ~(regLock = c /\ procLock = c)
  /\ \A c \in Callers : regLock = c => ~UsesProcesses(call[c].pc)
  /\ \A c \in Callers : procLock = c => ~UsesServers(call[c].pc)
  /\ \A c \in Callers :
       call[c].pc # "idle" =>
         \/ ENABLED LockStep(c)
         \/ \E q \in Callers \ {c} :
              (regLock = q \/ procLock = q) /\ ENABLED LockStep(q)

\* save_servers holds the servers lock while a stop_server of another
\* caller, just past its block on the process table, waits for it
C34_Witness ==
  \E c \in Callers : \E q \in Callers \ {c} :
    /\ regLock = c
    /\ call[c].pc = "save_write"
    /\ call[q].pc = "stop_set"
    /\ call[q].killed
    /\ ~ENABLED LockStep(q)

\* C35: every live process spawned by start_server is in the process table
\* under its id, or still in the hands of the start_server call that
\* spawned it and is about to insert it -- refuted: two overlapping
\* start_server calls both spawn, and the second insert replaces the first
\* handle while its process is alive
C35_NoOrphan ==
  \A p \in Procs :
    osProc[p].state = "alive" =>
      \/ processes[osProc[p].sid].proc = p
      \/ \E c \in Callers : call[c].pc = "start_insert" /\ call[c].child = p

\* C36: the stdin stream stored in a process table entry is the stream of
\* that entry's own process -- refuted: send_command puts the stream it
\* took back into whatever entry the id has when the write is done
C36_OwnStdin ==
  \A id \in ServerIds :
    HasChild(id) => processes[id].stdin \in {None, processes[id].proc}

\* C37: a step of stop_server on an id that has no record leaves the
\* Registry as it is; when the id has no process table entry either, it
\* leaves the process table and the processes as they are and writes no
\* command; and the call returns success
C37_StopMissing ==
  [][\A c \in Callers :
       (/\ call[c].op = "stop"
        /\ call[c].pc # "done"
        /\ ~HasRecord(call[c].id)
        /\ call'[c] # call[c]) =>
         /\ servers' = servers
         /\ ~HasChild(call[c].id) =>
              /\ processes' = processes
              /\ osProc' = osProc
              /\ call'[c].wrote = call[c].wrote
              /\ call'[c].killed = call[c].killed
         /\ call'[c].pc = "done" => call'[c].result = "Ok"]_vars

C37_Witness ==
  \E c \in Callers :
    /\ call[c].op = "stop"
    /\ call[c].pc = "done"
    /\ call[c].result = "Ok"
    /\ ~HasRecord(call[c].id)
    /\ ~HasChild(call[c].id)
    /\ ~call[c].wrote
    /\ ~call[c].killed

\* C38: the pass leaves the records as they are; restart_server is called
\* for the selected ids one after the other in the order they were pushed,
\* whether or not an earlier one failed, and the sweep ends only when it
\* was called for every selected id
C38_SweepIndependent ==
  /\ [][arg' = arg]_vars
  /\ [](ret.stage \in {"loop", "done"} =>
          /\ Len(ret.called) <= Len(ret.restart_ids)
          /\ ret.called = SubSeq(ret.restart_ids, 1, Len(ret.called))
          /\ Len(ret.failed) = Len(ret.called))
  /\ [](ret.stage = "done" => ret.called = ret.restart_ids)

\* two records selected, the restart of the first failed, the second was
\* restarted all the same
C38_Witness ==
  /\ ret.stage = "done"
  /\ ret.restart_ids = <<1, 2>>
  /\ ret.called = <<1, 2>>
  /\ ret.failed = <<TRUE, FALSE>>

\* C39: the record a successful create_server returns is in the Registry,
\* Stopped, with no pid and no last_start_time, auto_restart off,
\* restart_interval 86400 and min_memory equal to max_memory, and its id
\* has no process table entry; a failed create_server leaves the Registry
\* as it was
C39_CreateServer ==
  ret.returned =>
    IF ret.ok
    THEN /\ arg.fails = "none"
         /\ HasRecord(ret.id)
         /\ servers[ret.id] = ServerInfo("Stopped", None)
         /\ ret.info.status = "Stopped"
         /\ ret.info.pid = None
         /\ ret.info.last_start_time = None
         /\ ~ret.info.auto_restart /\ ~policy[ret.id].auto_restart
         /\ ret.info.restart_interval = 86400
         /\ policy[ret.id].restart_interval = 86400
         /\ ret.info.max_memory = arg.max_memory
         /\ ret.info.min_memory = ret.info.max_memory
         /\ ~HasChild(ret.id)
    ELSE /\ arg.fails # "none"
         /\ servers = NoServers
         /\ policy = [id \in ServerIds |-> NoPolicy]

C39_Witness ==
  /\ ret.returned
  /\ ret.ok
  /\ arg.max_memory = <<"4", "G">>
  /\ ret.info.min_memory = <<"4", "G">>
  /\ HasRecord(ret.id)

\* ---------------------------------------------------------------------
\* PrismarineBridge (bridge.rs): start, stop, is_running, get_status and the
\* threads that read the output of bore. The bridge of AppState is outside
\* the mutex of the ServerManager, so its commands overlap freely. bore is
\* taken to be installed: ensure_installed returns at once.
\* ---------------------------------------------------------------------

\* of BridgeStatus the model has the variants that start, stop and
\* parse_bore_output assign ("Stopped", "Starting", "Running", "Connected",
\* "Error"), without the payload of the last two

\* what parse_bore_output tells apart in a line: "listening" has the word,
\* "bore.pub" and an address that extract_bore_address finds; "error" has
\* the word "error" and is not of the first kind; "other" is any other line
LineKinds == {"listening", "error", "other"}

\* is_running: the Option in `process` is Some
is_running == bridge.process # None

\* get_status: a clone of the status
get_status == bridge.status

\* parse_bore_output, as the status it leaves: only the last branch looks at
\* the status it finds
parse_bore_output(kind, status) ==
  IF kind = "listening" THEN "Connected"
  ELSE IF kind = "error" THEN "Error"
  ELSE IF status = "Starting" THEN "Running"
  ELSE status

\* the Child that the next successful spawn returns
NextBore ==
  IF \E p \in Procs : p \notin bridge.alive \cup bridge.reading
                      /\ p # bridge.process
                      /\ \A c \in Callers : bridge.child[c] # p
  THEN CHOOSE p \in Procs : /\ p \notin bridge.alive \cup bridge.reading
                            /\ p # bridge.process
                            /\ \A c \in Callers : bridge.child[c] # p
  ELSE None

BridgeIdle(c) == bridge.op[c] = "none"

\* a start() is under way in some caller
StartUnderWay ==
  \E c \in Callers : bridge.op[c] = "start" /\ bridge.pc[c] # "done"

\* the start_bridge command calls start(); its first statement is stop()
BridgeBeginStart(c) ==
  /\ BridgeIdle(c)
  /\ bridge' = [bridge EXCEPT !.op[c] = "start", !.pc[c] = "stop_take",
                              !.result[c] = "none",
                              !.clear = [q \in Callers |-> FALSE],
                              !.stopped = FALSE]
  /\ UNCHANGED <<servers, processes, osProc, usedIds, now, call,
                 regLock, procLock, disk, snapshot, policy, appLock, arg, ret>>

\* the stop_bridge command calls stop()
BridgeBeginStop(c) ==
  /\ BridgeIdle(c)
  /\ bridge' = [bridge EXCEPT !.op[c] = "stop", !.pc[c] = "stop_take",
                              !.result[c] = "none",
                              !.clear[c] = ~StartUnderWay]
  /\ UNCHANGED <<servers, processes, osProc, usedIds, now, call,
                 regLock, procLock, disk, snapshot, policy, appLock, arg, ret>>

\* stop, its if-let: under the lock of `process` the Child is taken out and
\* killed; the monitor threads of that process are left to themselves
BridgeStopTake(c) ==
  /\ bridge.pc[c] = "stop_take"
  /\ bridge' = [bridge EXCEPT !.process = None,
                              !.alive = @ \ {bridge.process},
                              !.pc[c] = "stop_status"]
  /\ UNCHANGED <<servers, processes, osProc, usedIds, now, call,
                 regLock, procLock, disk, snapshot, policy, appLock, arg, ret>>

\* stop, its last statement: the status becomes Stopped and stop returns
\* Ok, to the command or to the start() that called it
BridgeStopStatus(c) ==
  /\ bridge.pc[c] = "stop_status"
  /\ bridge' = [bridge EXCEPT
       !.status = "Stopped",
       !.pc[c] = IF bridge.op[c] = "start" THEN "start_status" ELSE "done",
       !.result[c] = IF bridge.op[c] = "start" THEN "none" ELSE "Ok",
       !.stopped = IF bridge.op[c] = "stop" /\ bridge.clear[c]
                   THEN TRUE ELSE @]
  /\ UNCHANGED <<servers, processes, osProc, usedIds, now, call,
                 regLock, procLock, disk, snapshot, policy, appLock, arg, ret>>

\* start: the status becomes Starting
BridgeStartStatus(c) ==
  /\ bridge.pc[c] = "start_status"
  /\ bridge' = [bridge EXCEPT !.status = "Starting", !.pc[c] = "start_spawn"]
  /\ UNCHANGED <<servers, processes, osProc, usedIds, now, call,
                 regLock, procLock, disk, snapshot, policy, appLock, arg, ret>>

\* start: spawn() either fails, and `?` returns the error with the status
\* as it is, or hands the Child to a local
BridgeStartSpawn(c) ==
  /\ bridge.pc[c] = "start_spawn"
  /\ \/ bridge' = [bridge EXCEPT !.pc[c] = "done", !.result[c] = "Err"]
     \/ /\ NextBore # None
        /\ bridge' = [bridge EXCEPT !.alive = @ \cup {NextBore},
                                    !.child[c] = NextBore,
                                    !.pc[c] = "start_store"]
  /\ UNCHANGED <<servers, processes, osProc, usedIds, now, call,
                 regLock, procLock, disk, snapshot, policy, appLock, arg, ret>>

\* start: the Child is stored over whatever `process` holds (a std Child
\* that is dropped is neither killed nor waited for), the monitor threads
\* are spawned and start returns Ok
BridgeStartStore(c) ==
  /\ bridge.pc[c] = "start_store"
  /\ bridge' = [bridge EXCEPT !.process = bridge.child[c],
                              !.reading = @ \cup {bridge.child[c]},
                              !.child[c] = None,
                              !.pc[c] = "done", !.result[c] = "Ok"]
  /\ UNCHANGED <<servers, processes, osProc, usedIds, now, call,
                 regLock, procLock, disk, snapshot, policy, appLock, arg, ret>>

\* the command has its result
BridgeReturn(c) ==
  /\ bridge.pc[c] = "done"
  /\ bridge' = [bridge EXCEPT !.op[c] = "none", !.pc[c] = "idle"]
  /\ UNCHANGED <<servers, processes, osProc, usedIds, now, call,
                 regLock, procLock, disk, snapshot, policy, appLock, arg, ret>>

\* a monitor thread of process p reads one line, written by p while it was
\* alive, and hands it to parse_bore_output with the shared status
MonitorLine(p, kind) ==
  /\ p \in bridge.reading
  /\ bridge' = [bridge EXCEPT !.status = parse_bore_output(kind, @)]
  /\ UNCHANGED <<servers, processes, osProc, usedIds, now, call,
                 regLock, procLock, disk, snapshot, policy, appLock, arg, ret>>

\* the monitor threads of p reach the end of the output of a process that
\* is dead, and end
MonitorEnd(p) ==
  /\ p \in bridge.reading
  /\ p \notin bridge.alive
  /\ bridge' = [bridge EXCEPT !.reading = @ \ {p}]
  /\ UNCHANGED <<servers, processes, osProc, usedIds, now, call,
                 regLock, procLock, disk, snapshot, policy, appLock, arg, ret>>

\* bore exits on its own; `process` keeps its Child
BoreExit(p) ==
  /\ p \in bridge.alive
  /\ bridge' = [bridge EXCEPT !.alive = @ \ {p}]
  /\ UNCHANGED <<servers, processes, osProc, usedIds, now, call,
                 regLock, procLock, disk, snapshot, policy, appLock, arg, ret>>

BridgeStep(c) ==
  \/ BridgeStopTake(c)
  \/ BridgeStopStatus(c)
  \/ BridgeStartStatus(c)
  \/ BridgeStartSpawn(c)
  \/ BridgeStartStore(c)
  \/ BridgeReturn(c)

BridgeNext ==
  \/ \E c \in Callers :
       \/ BridgeBeginStart(c)
       \/ BridgeBeginStop(c)
       \/ BridgeStep(c)
  \/ \E p \in Procs :
       \/ \E kind \in LineKinds : MonitorLine(p, kind)
       \/ MonitorEnd(p)
       \/ BoreExit(p)

SpecBridge == Init /\ [][BridgeNext]_vars

\* the bore processes that are alive and that nothing holds: neither
\* `process` nor the local of a start() that has spawned and not yet stored
Untracked ==
  {p \in bridge.alive :
     p # bridge.process /\ \A c \in Callers : bridge.child[c] # p}

\* C40: at most one bore process is tracked at a time, start having stopped
\* and killed the one before, so that no bore process is alive beside the
\* tracked one; and once stop() has returned, until start() is called
\* again, is_running() is false and get_status() is Stopped, whatever lines
\* the monitor threads of the stopped process still hand to
\* parse_bore_output
C40_BridgeStopped ==
  /\ Untracked = {}
  /\ bridge.stopped => (~is_running /\ get_status = "Stopped")

====
